--------------------------- MODULE Spec2Model ---------------------------
(***************************************************************************)
(* A model of the OT-demo control loop: the register bank of the           *)
(* Controller, the shared snapshot file, the Controller loop, the          *)
(* Environment loop and the writes that reach the bank through the Modbus  *)
(* gateway.  Two deployments are modelled, selected by `variant`:          *)
(*   "A"  modbus-1-plc.py  with  modbus-1-field.py                         *)
(*   "B"  modbus-plc1.py   with  reality-loop.py                           *)
(* A snapshot, and each register space of the bank, is a function from     *)
(* the slot index to the slot value.  The gateway's clients, the operator  *)
(* console (modbus-1-HMI.py, modbus-hmi1.py) and the adversarial writer    *)
(* (modbus-1-attack.py), are modelled against a running Controller.        *)
(***************************************************************************)
EXTENDS Integers, Sequences, FiniteSets, TLC

VARIABLES
  variant,  \* "A" or "B": which pair of programs runs
  bank,     \* the Controller's register bank: [co, di, ir, hr]
  file,     \* the snapshot file TMP_FILE: [state, data]
  plc,      \* the Controller process: position, loop counter, locals
  env,      \* the Environment process: position, loaded data, locals
  gw,       \* the gateway: number of remote writes served so far
  hmi,      \* the operator console: position, last snapshot read, pump_delta
  atk       \* the adversarial writer: position, loop index, success_count

vars == <<variant, bank, file, plc, env, gw, hmi, atk>>

-----------------------------------------------------------------------------
(* Bounds of the model. *)

\* Controller loop iterations explored.
MaxPlcIters == 4
\* Environment ticks explored.
MaxEnvTicks == 2
\* Remote writes served by the gateway.
MaxGwWrites == 1
\* Upper end of the dense temperature sweep of the logic-only specification.
TempSweep == 260
\* Times the Controller process is ended and started again.
MaxRestarts == 1

(* Program constants. *)

\* Largest value of a 16-bit register (the mask 0xFFFF).
MaxReg == 65535
\* PLC_LOOP_MULTIPLIER: plc_logic runs every PLC_LOOP_MULTIPLIER-th iteration.
PLC_LOOP_MULTIPLIER == 2
\* Fixed-point scale of the tables below: values are in 10^-6 units.
Scale == 1000000

-----------------------------------------------------------------------------
(* Arithmetic helpers. *)

Max(a, b) == IF a >= b THEN a ELSE b
Min(a, b) == IF a <= b THEN a ELSE b
Abs(a) == IF a >= 0 THEN a ELSE -a

\* clamp(val, minval, maxval) = max(minval, min(val, maxval))
clamp(val, minval, maxval) == Max(minval, Min(val, maxval))

\* Floor division with a positive divisor (\div floors in TLA+).
FloorDiv(a, b) == a \div b
\* Ceiling division with a positive divisor.
CeilDiv(a, b) == -((-a) \div b)
\* Python's int() on the quotient a/b: truncation toward zero.
TruncDiv(a, b) ==
  IF (a >= 0) = (b > 0) THEN Abs(a) \div Abs(b) ELSE -(Abs(a) \div Abs(b))

\* A faulty int16_signed, kept to show that the properties below tell the two apart:
\* the sign bit alone is read as positive.
int16_signed_mut(val) == IF val > 32768 THEN val - 65536 ELSE val

\* int16_signed(val): the two's-complement reading of a 16-bit register.
int16_signed(val) == IF val >= 32768 THEN val - 65536 ELSE val

\* dict.get(key, default) on a snapshot section.
Get(f, i, dflt) == IF i \in DOMAIN f THEN f[i] ELSE dflt

\* f restricted to the indices in S.
Restrict(f, S) == [i \in (DOMAIN f) \cap S |-> f[i]]

\* f overridden by g where g is defined (dict.update on the keys of f).
Override(f, g) == [i \in DOMAIN f |-> IF i \in DOMAIN g THEN g[i] ELSE f[i]]

\* A section without keys.
EmptyFn == [i \in {} |-> 0]

-----------------------------------------------------------------------------
(* Fixed-point tables of the floating-point terms of the plant model.      *)

\* floor(10^6 * (n/100)**1.2 * 10) for n = 0..600, entry n+1 (modbus-1-field.py line 82).
PressureInputTab ==
  << 0, 39810, 91461, 148780, 210122, 274640, 341807, 411261, 482734, 556020, 630957, 707410,
     785267, 864434, 944829, 1026383, 1109031, 1192720, 1277400, 1363026, 1449559, 1536962,
     1625201, 1714247, 1804070, 1894645, 1985948, 2077956, 2170649, 2264006, 2358009, 2452641,
     2547885, 2643727, 2740152, 2837145, 2934695, 3032788, 3131412, 3230557, 3330212, 3430367,
     3531011, 3632136, 3733732, 3835791, 3938305, 4041265, 4144665, 4248496, 4352752, 4457426,
     4562511, 4668002, 4773891, 4880173, 4986842, 5093893, 5201320, 5309118, 5417282, 5525808,
     5634689, 5743923, 5853504, 5963428, 6073691, 6184288, 6295216, 6406471, 6518049, 6629946,
     6742159, 6854683, 6967517, 7080656, 7194097, 7307837, 7421873, 7536201, 7650819, 7765725,
     7880914, 7996385, 8112134, 8228159, 8344458, 8461027, 8577864, 8694968, 8812335, 8929963,
     9047850, 9165993, 9284391, 9403040, 9521940, 9641088, 9760482, 9880120, 10000000,
     10120119, 10240477, 10361071, 10481899, 10602960, 10724252, 10845773, 10967521, 11089495,
     11211693, 11334113, 11456755, 11579615, 11702693, 11825987, 11949495, 12073217, 12197151,
     12321294, 12445647, 12570207, 12694973, 12819944, 12945118, 13070494, 13196071, 13321847,
     13447822, 13573993, 13700361, 13826923, 13953678, 14080626, 14207764, 14335093, 14462610,
     14590315, 14718206, 14846283, 14974545, 15102990, 15231617, 15360425, 15489414, 15618582,
     15747928, 15877451, 16007151, 16137026, 16267076, 16397299, 16527695, 16658263, 16789001,
     16919909, 17050986, 17182232, 17313644, 17445223, 17576968, 17708878, 17840951, 17973188,
     18105587, 18238147, 18370869, 18503750, 18636791, 18769990, 18903346, 19036860, 19170530,
     19304356, 19438336, 19572471, 19706758, 19841199, 19975791, 20110535, 20245430, 20380474,
     20515668, 20651010, 20786500, 20922138, 21057922, 21193853, 21329929, 21466150, 21602515,
     21739023, 21875675, 22012469, 22149405, 22286482, 22423700, 22561058, 22698555, 22836192,
     22973967, 23111879, 23249929, 23388116, 23526439, 23664897, 23803491, 23942219, 24081082,
     24220078, 24359207, 24498469, 24637862, 24777388, 24917044, 25056831, 25196748, 25336795,
     25476970, 25617275, 25757708, 25898268, 26038956, 26179770, 26320711, 26461778, 26602970,
     26744287, 26885728, 27027294, 27168984, 27310797, 27452732, 27594790, 27736970, 27879272,
     28021695, 28164238, 28306902, 28449686, 28592589, 28735612, 28878753, 29022012, 29165390,
     29308885, 29452497, 29596226, 29740072, 29884033, 30028110, 30172303, 30316610, 30461032,
     30605569, 30750219, 30894982, 31039859, 31184849, 31329951, 31475165, 31620490, 31765928,
     31911476, 32057135, 32202904, 32348784, 32494773, 32640872, 32787079, 32933396, 33079820,
     33226353, 33372994, 33519742, 33666597, 33813560, 33960628, 34107803, 34255084, 34402471,
     34549962, 34697559, 34845261, 34993066, 35140977, 35288990, 35437108, 35585328, 35733652,
     35882078, 36030607, 36179238, 36327971, 36476805, 36625740, 36774777, 36923914, 37073152,
     37222490, 37371928, 37521465, 37671102, 37820838, 37970673, 38120606, 38270638, 38420768,
     38570996, 38721321, 38871744, 39022264, 39172880, 39323594, 39474403, 39625309, 39776310,
     39927407, 40078600, 40229887, 40381270, 40532747, 40684318, 40835984, 40987743, 41139597,
     41291543, 41443583, 41595716, 41747942, 41900260, 42052671, 42205174, 42357769, 42510455,
     42663233, 42816102, 42969062, 43122113, 43275255, 43428487, 43581809, 43735221, 43888722,
     44042314, 44195994, 44349764, 44503623, 44657570, 44811606, 44965730, 45119942, 45274242,
     45428630, 45583106, 45737668, 45892318, 46047054, 46201878, 46356788, 46511784, 46666866,
     46822034, 46977288, 47132628, 47288053, 47443563, 47599158, 47754838, 47910603, 48066452,
     48222385, 48378402, 48534504, 48690689, 48846957, 49003309, 49159744, 49316262, 49472863,
     49629547, 49786313, 49943162, 50100092, 50257105, 50414199, 50571375, 50728632, 50885971,
     51043391, 51200892, 51358473, 51516135, 51673878, 51831701, 51989604, 52147587, 52305650,
     52463793, 52622015, 52780316, 52938696, 53097156, 53255694, 53414311, 53573007, 53731781,
     53890633, 54049564, 54208572, 54367658, 54526821, 54686063, 54845381, 55004777, 55164249,
     55323799, 55483425, 55643128, 55802907, 55962763, 56122694, 56282702, 56442785, 56602945,
     56763179, 56923489, 57083875, 57244336, 57404871, 57565482, 57726167, 57886927, 58047761,
     58208669, 58369652, 58530709, 58691839, 58853044, 59014322, 59175673, 59337098, 59498596,
     59660167, 59821812, 59983529, 60145318, 60307180, 60469115, 60631122, 60793201, 60955352,
     61117576, 61279871, 61442237, 61604675, 61767185, 61929766, 62092418, 62255141, 62417935,
     62580799, 62743735, 62906741, 63069817, 63232964, 63396181, 63559468, 63722825, 63886252,
     64049748, 64213314, 64376950, 64540655, 64704429, 64868272, 65032184, 65196165, 65360215,
     65524334, 65688521, 65852776, 66017100, 66181492, 66345952, 66510480, 66675076, 66839740,
     67004471, 67169270, 67334136, 67499070, 67664070, 67829138, 67994273, 68159475, 68324743,
     68490078, 68655480, 68820948, 68986483, 69152083, 69317750, 69483483, 69649282, 69815146,
     69981076, 70147072, 70313133, 70479260, 70645452, 70811709, 70978031, 71144419, 71310871,
     71477388, 71643969, 71810615, 71977326, 72144101, 72310940, 72477844, 72644811, 72811843,
     72978938, 73146098, 73313321, 73480607, 73647957, 73815370, 73982847, 74150387, 74317990,
     74485656, 74653385, 74821177, 74989032, 75156949, 75324928, 75492971, 75661075, 75829242,
     75997471, 76165762, 76334115, 76502530, 76671007, 76839546, 77008146, 77176808, 77345531,
     77514315, 77683161, 77852068, 78021036, 78190066, 78359156, 78528306, 78697518, 78866790,
     79036123, 79205517, 79374970, 79544484, 79714059, 79883693, 80053388, 80223142, 80392956,
     80562831, 80732765, 80902758, 81072811, 81242924, 81413096, 81583327, 81753617, 81923967,
     82094375, 82264843, 82435370, 82605955, 82776599, 82947302, 83118063, 83288883, 83459761,
     83630697, 83801692, 83972745, 84143856, 84315025, 84486252, 84657537, 84828880, 85000280,
     85171738, 85343253, 85514826, 85686457, 85858144 >>

\* floor(10^6 * (t/120)**1.1 * 7) for t = 0..1000, entry t+1 (modbus-1-field.py line 83).
PressureLossTab ==
  << 0, 36140, 77469, 121013, 166059, 212258, 259397, 307331, 355957, 405196, 454986, 505278,
     556029, 607206, 658778, 710720, 763010, 815628, 868557, 921780, 975285, 1029058, 1083087,
     1137363, 1191875, 1246615, 1301575, 1356746, 1412122, 1467697, 1523463, 1579415, 1635549,
     1691858, 1748338, 1804984, 1861793, 1918759, 1975880, 2033151, 2090569, 2148131, 2205834,
     2263674, 2321649, 2379756, 2437992, 2496354, 2554841, 2613450, 2672179, 2731026, 2789988,
     2849063, 2908250, 2967547, 3026951, 3086462, 3146077, 3205795, 3265615, 3325534, 3385552,
     3445666, 3505876, 3566180, 3626577, 3687066, 3747645, 3808313, 3869069, 3929912, 3990840,
     4051854, 4112951, 4174130, 4235392, 4296733, 4358155, 4419656, 4481234, 4542889, 4604621,
     4666428, 4728309, 4790264, 4852292, 4914392, 4976564, 5038806, 5101118, 5163500, 5225950,
     5288468, 5351053, 5413705, 5476423, 5539206, 5602054, 5664966, 5727942, 5790981, 5854082,
     5917245, 5980470, 6043755, 6107101, 6170506, 6233971, 6297494, 6361076, 6424716, 6488413,
     6552166, 6615977, 6679843, 6743765, 6807742, 6871774, 6935860, 7000000, 7064193, 7128439,
     7192738, 7257090, 7321493, 7385948, 7450454, 7515011, 7579618, 7644275, 7708983, 7773739,
     7838545, 7903399, 7968302, 8033253, 8098252, 8163298, 8228391, 8293531, 8358718, 8423951,
     8489230, 8554554, 8619924, 8685339, 8750799, 8816303, 8881852, 8947445, 9013081, 9078761,
     9144484, 9210250, 9276059, 9341911, 9407804, 9473740, 9539717, 9605736, 9671796, 9737897,
     9804039, 9870221, 9936444, 10002707, 10069010, 10135353, 10201735, 10268156, 10334617,
     10401116, 10467654, 10534231, 10600845, 10667498, 10734189, 10800918, 10867684, 10934487,
     11001327, 11068205, 11135119, 11202069, 11269056, 11336080, 11403139, 11470234, 11537365,
     11604531, 11671733, 11738970, 11806242, 11873549, 11940891, 12008267, 12075677, 12143122,
     12210601, 12278114, 12345660, 12413240, 12480854, 12548501, 12616181, 12683894, 12751640,
     12819418, 12887230, 12955073, 13022949, 13090858, 13158798, 13226770, 13294774, 13362810,
     13430877, 13498975, 13567105, 13635266, 13703457, 13771680, 13839933, 13908218, 13976532,
     14044877, 14113252, 14181657, 14250093, 14318558, 14387053, 14455577, 14524131, 14592715,
     14661328, 14729970, 14798641, 14867341, 14936070, 15004828, 15073614, 15142429, 15211273,
     15280145, 15349045, 15417973, 15486929, 15555913, 15624925, 15693964, 15763032, 15832126,
     15901249, 15970398, 16039575, 16108779, 16178010, 16247268, 16316552, 16385864, 16455202,
     16524567, 16593958, 16663375, 16732819, 16802289, 16871785, 16941308, 17010856, 17080430,
     17150030, 17219655, 17289306, 17358983, 17428685, 17498412, 17568165, 17637943, 17707746,
     17777574, 17847427, 17917305, 17987207, 18057134, 18127086, 18197063, 18267064, 18337089,
     18407139, 18477213, 18547311, 18617433, 18687579, 18757749, 18827943, 18898161, 18968402,
     19038667, 19108956, 19179268, 19249604, 19319963, 19390346, 19460751, 19531180, 19601632,
     19672107, 19742605, 19813125, 19883669, 19954235, 20024824, 20095436, 20166070, 20236727,
     20307406, 20378107, 20448831, 20519577, 20590346, 20661136, 20731948, 20802783, 20873639,
     20944517, 21015417, 21086339, 21157283, 21228248, 21299234, 21370243, 21441272, 21512323,
     21583396, 21654489, 21725604, 21796740, 21867898, 21939076, 22010275, 22081495, 22152736,
     22223998, 22295281, 22366584, 22437908, 22509253, 22580618, 22652004, 22723410, 22794837,
     22866284, 22937751, 23009239, 23080746, 23152274, 23223822, 23295390, 23366978, 23438586,
     23510214, 23581862, 23653529, 23725216, 23796923, 23868650, 23940396, 24012162, 24083947,
     24155752, 24227576, 24299419, 24371282, 24443164, 24515065, 24586986, 24658925, 24730884,
     24802862, 24874858, 24946874, 25018909, 25090962, 25163034, 25235125, 25307235, 25379363,
     25451510, 25523676, 25595860, 25668063, 25740284, 25812524, 25884782, 25957058, 26029353,
     26101665, 26173997, 26246346, 26318713, 26391099, 26463502, 26535924, 26608363, 26680821,
     26753296, 26825789, 26898300, 26970829, 27043376, 27115940, 27188522, 27261121, 27333739,
     27406373, 27479025, 27551695, 27624382, 27697086, 27769808, 27842547, 27915304, 27988077,
     28060868, 28133676, 28206501, 28279344, 28352203, 28425079, 28497972, 28570883, 28643810,
     28716754, 28789715, 28862693, 28935687, 29008698, 29081726, 29154771, 29227832, 29300910,
     29374005, 29447116, 29520243, 29593387, 29666547, 29739724, 29812917, 29886127, 29959353,
     30032595, 30105853, 30179128, 30252419, 30325725, 30399048, 30472387, 30545743, 30619114,
     30692501, 30765904, 30839323, 30912758, 30986209, 31059675, 31133158, 31206656, 31280170,
     31353699, 31427245, 31500806, 31574382, 31647974, 31721582, 31795205, 31868844, 31942498,
     32016168, 32089853, 32163553, 32237269, 32311000, 32384747, 32458509, 32532286, 32606078,
     32679885, 32753708, 32827545, 32901398, 32975266, 33049149, 33123046, 33196959, 33270887,
     33344830, 33418788, 33492760, 33566748, 33640750, 33714767, 33788799, 33862845, 33936907,
     34010983, 34085073, 34159179, 34233298, 34307433, 34381582, 34455746, 34529924, 34604116,
     34678324, 34752545, 34826781, 34901031, 34975296, 35049575, 35123868, 35198176, 35272498,
     35346834, 35421184, 35495549, 35569928, 35644320, 35718727, 35793149, 35867584, 35942033,
     36016496, 36090973, 36165464, 36239970, 36314489, 36389022, 36463568, 36538129, 36612704,
     36687292, 36761894, 36836510, 36911140, 36985783, 37060440, 37135111, 37209795, 37284493,
     37359205, 37433930, 37508669, 37583421, 37658187, 37732966, 37807759, 37882565, 37957385,
     38032218, 38107064, 38181924, 38256797, 38331684, 38406584, 38481497, 38556423, 38631363,
     38706316, 38781282, 38856261, 38931253, 39006259, 39081277, 39156309, 39231354, 39306411,
     39381482, 39456566, 39531663, 39606773, 39681896, 39757031, 39832180, 39907341, 39982516,
     40057703, 40132903, 40208116, 40283342, 40358580, 40433831, 40509095, 40584372, 40659661,
     40734963, 40810278, 40885605, 40960945, 41036297, 41111663, 41187040, 41262430, 41337833,
     41413248, 41488676, 41564116, 41639569, 41715034, 41790511, 41866001, 41941504, 42017018,
     42092545, 42168084, 42243636, 42319200, 42394776, 42470364, 42545965, 42621578, 42697203,
     42772840, 42848489, 42924151, 42999825, 43075510, 43151208, 43226918, 43302640, 43378374,
     43454120, 43529878, 43605648, 43681430, 43757224, 43833030, 43908848, 43984677, 44060519,
     44136372, 44212238, 44288115, 44364004, 44439905, 44515817, 44591742, 44667678, 44743625,
     44819585, 44895556, 44971539, 45047534, 45123540, 45199558, 45275588, 45351629, 45427681,
     45503746, 45579822, 45655909, 45732008, 45808118, 45884240, 45960374, 46036519, 46112675,
     46188843, 46265022, 46341213, 46417415, 46493628, 46569853, 46646089, 46722336, 46798595,
     46874865, 46951146, 47027439, 47103743, 47180058, 47256384, 47332722, 47409070, 47485430,
     47561801, 47638183, 47714577, 47790981, 47867397, 47943823, 48020261, 48096710, 48173170,
     48249641, 48326122, 48402615, 48479119, 48555634, 48632160, 48708697, 48785244, 48861803,
     48938373, 49014953, 49091544, 49168146, 49244759, 49321383, 49398018, 49474663, 49551320,
     49627987, 49704665, 49781353, 49858053, 49934763, 50011483, 50088215, 50164957, 50241710,
     50318473, 50395247, 50472032, 50548828, 50625634, 50702450, 50779277, 50856115, 50932964,
     51009822, 51086692, 51163572, 51240462, 51317363, 51394274, 51471196, 51548128, 51625071,
     51702024, 51778988, 51855962, 51932946, 52009941, 52086946, 52163961, 52240987, 52318023,
     52395070, 52472126, 52549193, 52626271, 52703358, 52780456, 52857564, 52934682, 53011811,
     53088950, 53166098, 53243258, 53320427, 53397606, 53474796, 53551995, 53629205, 53706425,
     53783655, 53860895, 53938145, 54015405, 54092676, 54169956, 54247246, 54324546, 54401857,
     54479177, 54556507, 54633847, 54711198, 54788558, 54865928, 54943308, 55020698, 55098098,
     55175507, 55252927, 55330356, 55407795, 55485245, 55562704, 55640172, 55717651, 55795139,
     55872637, 55950145, 56027663, 56105190, 56182727, 56260274, 56337831, 56415397, 56492973,
     56570559, 56648154, 56725759, 56803374, 56880999, 56958632, 57036276, 57113929, 57191592,
     57269264, 57346946, 57424638, 57502339, 57580050, 57657770, 57735500, 57813239, 57890987,
     57968746, 58046513, 58124291, 58202077, 58279873, 58357679, 58435494, 58513318, 58591152,
     58668995, 58746848, 58824710, 58902581, 58980462, 59058352, 59136251, 59214160, 59292078,
     59370005, 59447942, 59525888, 59603843, 59681807, 59759781, 59837764, 59915756, 59993758,
     60071768, 60149788, 60227817, 60305856, 60383903, 60461960, 60540026, 60618101, 60696185,
     60774278, 60852380, 60930492, 61008612, 61086742, 61164881, 61243028, 61321185, 61399351,
     61477526, 61555710, 61633903, 61712105, 61790317, 61868537, 61946766, 62025004, 62103251,
     62181507, 62259772, 62338046, 62416328, 62494620, 62572921, 62651231, 62729549, 62807876,
     62886213, 62964558, 63042912, 63121275, 63199646, 63278027, 63356416, 63434814, 63513221,
     63591637, 63670062, 63748495, 63826937, 63905388, 63983848, 64062316, 64140793, 64219279,
     64297774, 64376277, 64454789, 64533310, 64611839, 64690377, 64768924, 64847479, 64926043,
     65004616, 65083197, 65161787, 65240386, 65318993, 65397609, 65476233, 65554866, 65633508,
     65712158, 65790816, 65869484, 65948159, 66026844, 66105537, 66184238, 66262948, 66341666,
     66420393, 66499128, 66577872, 66656624, 66735385, 66814154, 66892932, 66971718, 67050512,
     67129315, 67208126, 67286946, 67365774, 67444611, 67523456, 67602309, 67681170, 67760040,
     67838919, 67917805, 67996700, 68075603, 68154515, 68233435, 68312363, 68391300, 68470244,
     68549198, 68628159, 68707128, 68786106, 68865092, 68944087, 69023089, 69102100, 69181119,
     69260146, 69339182, 69418225, 69497277, 69576337, 69655405, 69734481, 69813566, 69892658,
     69971759, 70050868, 70129985, 70209110, 70288243, 70367384, 70446533, 70525691, 70604856,
     70684030, 70763212, 70842401, 70921599, 71000805, 71080019, 71159241, 71238471, 71317708,
     71396954, 71476208, 71555470, 71634740, 71714018, 71793304, 71872597, 71951899, 72031209,
     72110526 >>

\* floor(10^6 * (v/1000)**1.5 * 25) for v = 0..1000, entry v+1 (modbus-1-field.py line 95).
HeatFromPumpTab ==
  << 0, 790, 2236, 4107, 6324, 8838, 11618, 14641, 17888, 21345, 25000, 28842, 32863, 37055,
     41412, 45927, 50596, 55413, 60373, 65474, 70710, 76079, 81578, 87203, 92951, 98821,
     104809, 110913, 117132, 123463, 129903, 136452, 143108, 149868, 156732, 163697, 170762,
     177927, 185189, 192547, 200000, 207546, 215185, 222916, 230737, 238648, 246647, 254733,
     262906, 271165, 279508, 287935, 296445, 305037, 313711, 322466, 331300, 340214, 349206,
     358276, 367423, 376647, 385946, 395321, 404771, 414295, 423892, 433563, 443305, 453120,
     463006, 472963, 482990, 493087, 503254, 513489, 523793, 534165, 544605, 555112, 565685,
     576325, 587030, 597801, 608637, 619538, 630503, 641532, 652625, 663781, 675000, 686281,
     697624, 709029, 720496, 732024, 743612, 755261, 766971, 778740, 790569, 802457, 814404,
     826410, 838474, 850597, 862777, 875015, 887310, 899662, 912071, 924537, 937059, 949637,
     962270, 974959, 987704, 1000503, 1013358, 1026267, 1039230, 1052247, 1065319, 1078444,
     1091622, 1104854, 1118139, 1131476, 1144866, 1158309, 1171804, 1185350, 1198949, 1212599,
     1226301, 1240054, 1253858, 1267712, 1281618, 1295573, 1309580, 1323636, 1337742, 1351898,
     1366103, 1380358, 1394663, 1409016, 1423418, 1437869, 1452368, 1466916, 1481512, 1496156,
     1510849, 1525589, 1540376, 1555211, 1570093, 1585023, 1600000, 1615023, 1630093, 1645210,
     1660373, 1675582, 1690838, 1706140, 1721487, 1736881, 1752319, 1767804, 1783333, 1798908,
     1814528, 1830193, 1845903, 1861658, 1877457, 1893300, 1909188, 1925120, 1941096, 1957116,
     1973180, 1989287, 2005438, 2021633, 2037871, 2054152, 2070476, 2086844, 2103254, 2119707,
     2136203, 2152741, 2169322, 2185945, 2202610, 2219318, 2236067, 2252859, 2269692, 2286567,
     2303484, 2320442, 2337441, 2354482, 2371564, 2388688, 2405852, 2423057, 2440303, 2457589,
     2474917, 2492284, 2509693, 2527141, 2544630, 2562159, 2579728, 2597337, 2614986, 2632675,
     2650403, 2668171, 2685979, 2703826, 2721712, 2739638, 2757603, 2775607, 2793649, 2811731,
     2829852, 2848011, 2866210, 2884446, 2902721, 2921035, 2939387, 2957777, 2976206, 2994673,
     3013177, 3031720, 3050300, 3068919, 3087575, 3106268, 3125000, 3143768, 3162574, 3181418,
     3200299, 3219217, 3238172, 3257164, 3276193, 3295259, 3314362, 3333502, 3352678, 3371891,
     3391141, 3410427, 3429749, 3449108, 3468504, 3487935, 3507402, 3526906, 3546446, 3566021,
     3585633, 3605280, 3624963, 3644682, 3664436, 3684226, 3704051, 3723912, 3743808, 3763740,
     3783707, 3803709, 3823746, 3843818, 3863925, 3884067, 3904244, 3924456, 3944702, 3964984,
     3985299, 4005650, 4026035, 4046454, 4066908, 4087396, 4107919, 4128475, 4149066, 4169691,
     4190350, 4211043, 4231770, 4252531, 4273326, 4294155, 4315017, 4335913, 4356842, 4377806,
     4398802, 4419832, 4440896, 4461993, 4483123, 4504286, 4525483, 4546713, 4567976, 4589271,
     4610600, 4631962, 4653357, 4674784, 4696245, 4717738, 4739264, 4760822, 4782413, 4804037,
     4825693, 4847381, 4869102, 4890855, 4912641, 4934459, 4956309, 4978191, 5000105, 5022051,
     5044030, 5066040, 5088082, 5110156, 5132262, 5154400, 5176569, 5198770, 5221003, 5243268,
     5265564, 5287891, 5310250, 5332640, 5355062, 5377515, 5400000, 5422515, 5445062, 5467640,
     5490249, 5512889, 5535560, 5558263, 5580996, 5603760, 5626555, 5649381, 5672237, 5695124,
     5718042, 5740991, 5763970, 5786980, 5810021, 5833091, 5856193, 5879325, 5902487, 5925679,
     5948902, 5972155, 5995438, 6018752, 6042095, 6065469, 6088873, 6112306, 6135770, 6159264,
     6182787, 6206341, 6229924, 6253537, 6277180, 6300853, 6324555, 6348287, 6372048, 6395839,
     6419660, 6443510, 6467390, 6491299, 6515237, 6539205, 6563202, 6587228, 6611284, 6635369,
     6659483, 6683626, 6707798, 6731999, 6756230, 6780489, 6804777, 6829094, 6853441, 6877816,
     6902219, 6926652, 6951113, 6975604, 7000122, 7024670, 7049246, 7073851, 7098484, 7123146,
     7147836, 7172555, 7197302, 7222077, 7246881, 7271713, 7296574, 7321463, 7346380, 7371325,
     7396299, 7421300, 7446330, 7471388, 7496473, 7521587, 7546729, 7571899, 7597096, 7622322,
     7647575, 7672856, 7698166, 7723502, 7748867, 7774259, 7799679, 7825127, 7850602, 7876104,
     7901635, 7927193, 7952778, 7978391, 8004031, 8029699, 8055394, 8081116, 8106866, 8132643,
     8158447, 8184278, 8210137, 8236023, 8261936, 8287876, 8313843, 8339838, 8365859, 8391907,
     8417983, 8444085, 8470214, 8496370, 8522553, 8548763, 8575000, 8601263, 8627553, 8653870,
     8680213, 8706584, 8732981, 8759404, 8785854, 8812331, 8838834, 8865364, 8891920, 8918503,
     8945112, 8971748, 8998410, 9025098, 9051813, 9078554, 9105321, 9132114, 9158934, 9185780,
     9212652, 9239550, 9266475, 9293425, 9320402, 9347404, 9374433, 9401487, 9428568, 9455675,
     9482807, 9509965, 9537150, 9564360, 9591596, 9618858, 9646145, 9673458, 9700797, 9728162,
     9755553, 9782969, 9810410, 9837878, 9865371, 9892889, 9920433, 9948002, 9975597, 10003218,
     10030864, 10058535, 10086232, 10113954, 10141702, 10169474, 10197272, 10225096, 10252944,
     10280818, 10308717, 10336642, 10364591, 10392566, 10420565, 10448590, 10476640, 10504715,
     10532815, 10560940, 10589090, 10617265, 10645465, 10673690, 10701940, 10730214, 10758514,
     10786838, 10815187, 10843561, 10871960, 10900383, 10928831, 10957304, 10985801, 11014324,
     11042871, 11071442, 11100038, 11128659, 11157304, 11185974, 11214668, 11243387, 11272130,
     11300897, 11329689, 11358506, 11387347, 11416212, 11445102, 11474016, 11502954, 11531916,
     11560903, 11589914, 11618950, 11648009, 11677093, 11706201, 11735332, 11764489, 11793669,
     11822873, 11852101, 11881354, 11910630, 11939931, 11969255, 11998604, 12027976, 12057372,
     12086792, 12116236, 12145704, 12175196, 12204712, 12234251, 12263814, 12293401, 12323012,
     12352647, 12382305, 12411987, 12441692, 12471422, 12501174, 12530951, 12560751, 12590575,
     12620422, 12650293, 12680187, 12710105, 12740046, 12770011, 12800000, 12830011, 12860046,
     12890105, 12920187, 12950292, 12980421, 13010573, 13040748, 13070947, 13101168, 13131413,
     13161682, 13191973, 13222288, 13252626, 13282987, 13313371, 13343779, 13374209, 13404663,
     13435140, 13465639, 13496162, 13526708, 13557277, 13587869, 13618483, 13649121, 13679782,
     13710465, 13741172, 13771901, 13802654, 13833429, 13864227, 13895048, 13925891, 13956758,
     13987647, 14018559, 14049493, 14080451, 14111431, 14142434, 14173459, 14204507, 14235578,
     14266671, 14297787, 14328926, 14360087, 14391270, 14422477, 14453705, 14484957, 14516230,
     14547527, 14578845, 14610186, 14641550, 14672936, 14704344, 14735775, 14767228, 14798704,
     14830201, 14861721, 14893264, 14924828, 14956415, 14988025, 15019656, 15051310, 15082985,
     15114683, 15146404, 15178146, 15209911, 15241697, 15273506, 15305337, 15337190, 15369065,
     15400962, 15432881, 15464822, 15496785, 15528770, 15560777, 15592806, 15624857, 15656930,
     15689025, 15721142, 15753280, 15785441, 15817623, 15849827, 15882053, 15914301, 15946571,
     15978862, 16011175, 16043510, 16075867, 16108245, 16140645, 16173067, 16205511, 16237976,
     16270463, 16302971, 16335501, 16368053, 16400626, 16433221, 16465837, 16498475, 16531134,
     16563815, 16596518, 16629242, 16661987, 16694754, 16727543, 16760353, 16793184, 16826036,
     16858911, 16891806, 16924723, 16957661, 16990620, 17023601, 17056603, 17089627, 17122671,
     17155737, 17188825, 17221933, 17255063, 17288214, 17321386, 17354579, 17387794, 17421029,
     17454286, 17487564, 17520863, 17554183, 17587525, 17620887, 17654271, 17687675, 17721101,
     17754547, 17788015, 17821503, 17855013, 17888543, 17922095, 17955667, 17989261, 18022875,
     18056510, 18090166, 18123843, 18157541, 18191260, 18225000, 18258760, 18292541, 18326343,
     18360166, 18394010, 18427874, 18461759, 18495665, 18529592, 18563539, 18597507, 18631496,
     18665505, 18699535, 18733586, 18767657, 18801749, 18835862, 18869995, 18904149, 18938324,
     18972519, 19006734, 19040970, 19075227, 19109504, 19143802, 19178120, 19212458, 19246817,
     19281197, 19315597, 19350017, 19384458, 19418919, 19453401, 19487903, 19522426, 19556968,
     19591531, 19626115, 19660719, 19695343, 19729987, 19764652, 19799337, 19834042, 19868768,
     19903513, 19938279, 19973065, 20007872, 20042698, 20077545, 20112412, 20147299, 20182206,
     20217134, 20252081, 20287049, 20322037, 20357044, 20392072, 20427120, 20462188, 20497276,
     20532384, 20567513, 20602661, 20637829, 20673017, 20708225, 20743453, 20778701, 20813969,
     20849257, 20884565, 20919892, 20955240, 20990608, 21025995, 21061402, 21096829, 21132276,
     21167743, 21203229, 21238736, 21274262, 21309808, 21345374, 21380959, 21416564, 21452189,
     21487834, 21523499, 21559183, 21594887, 21630610, 21666353, 21702116, 21737899, 21773701,
     21809523, 21845364, 21881225, 21917106, 21953006, 21988926, 22024866, 22060825, 22096803,
     22132801, 22168819, 22204856, 22240912, 22276988, 22313084, 22349199, 22385334, 22421488,
     22457661, 22493854, 22530066, 22566298, 22602549, 22638819, 22675109, 22711418, 22747747,
     22784095, 22820462, 22856849, 22893255, 22929680, 22966124, 23002588, 23039071, 23075574,
     23112095, 23148636, 23185196, 23221775, 23258374, 23294992, 23331629, 23368285, 23404960,
     23441655, 23478368, 23515101, 23551853, 23588624, 23625414, 23662223, 23699052, 23735899,
     23772766, 23809651, 23846556, 23883480, 23920422, 23957384, 23994365, 24031365, 24068384,
     24105421, 24142478, 24179554, 24216648, 24253762, 24290895, 24328046, 24365217, 24402406,
     24439614, 24476841, 24514087, 24551352, 24588636, 24625939, 24663260, 24700600, 24737959,
     24775337, 24812734, 24850150, 24887584, 24925037, 24962509, 25000000 >>

\* floor(10^6 * (v/200)**1.2 * 40) for v = 0..300, entry v+1 (modbus-1-field.py line 97).
HeatFromHeaterTab ==
  << 0, 69314, 159242, 259041, 365844, 478176, 595121, 716047, 840488, 968088, 1098560,
     1231672, 1367229, 1505067, 1645044, 1787036, 1930936, 2076647, 2224083, 2373167, 2523829,
     2676006, 2829640, 2984677, 3141069, 3298769, 3457737, 3617932, 3779319, 3941863, 4105532,
     4270296, 4436126, 4602997, 4770882, 4939757, 5109601, 5280390, 5452106, 5624727, 5798237,
     5972616, 6147848, 6323916, 6500806, 6678501, 6856988, 7036252, 7216281, 7397062, 7578582,
     7760830, 7943794, 8127463, 8311827, 8496874, 8682596, 8868983, 9056024, 9243712, 9432037,
     9620990, 9810565, 10000751, 10191543, 10382932, 10574910, 10767472, 10960609, 11154315,
     11348583, 11543407, 11738780, 11934697, 12131152, 12328138, 12525651, 12723683, 12922231,
     13121289, 13320851, 13520913, 13721469, 13922515, 14124046, 14326058, 14528545, 14731504,
     14934930, 15138819, 15343166, 15547969, 15753221, 15958921, 16165063, 16371645, 16578661,
     16786110, 16993987, 17202288, 17411011, 17620151, 17829706, 18039673, 18250047, 18460827,
     18672008, 18883588, 19095564, 19307933, 19520692, 19733838, 19947369, 20161281, 20375572,
     20590239, 20805280, 21020693, 21236473, 21452620, 21669130, 21886002, 22103232, 22320819,
     22538759, 22757052, 22975694, 23194684, 23414018, 23633696, 23853714, 24074071, 24294765,
     24515794, 24737155, 24958846, 25180867, 25403214, 25625886, 25848881, 26072197, 26295832,
     26519785, 26744054, 26968636, 27193530, 27418735, 27644249, 27870069, 28096195, 28322625,
     28549357, 28776389, 29003720, 29231349, 29459273, 29687492, 29916003, 30144806, 30373899,
     30603279, 30832947, 31062901, 31293138, 31523658, 31754459, 31985541, 32216900, 32448538,
     32680451, 32912638, 33145099, 33377832, 33610836, 33844109, 34077651, 34311459, 34545534,
     34779873, 35014476, 35249341, 35484467, 35719852, 35955497, 36191400, 36427559, 36663973,
     36900642, 37137564, 37374738, 37612163, 37849839, 38087763, 38325935, 38564355, 38803020,
     39041930, 39281084, 39520481, 39760120, 40000000, 40240119, 40480478, 40721075, 40961909,
     41202980, 41444285, 41685825, 41927599, 42169605, 42411843, 42654312, 42897010, 43139938,
     43383094, 43626477, 43870087, 44113922, 44357982, 44602267, 44846774, 45091504, 45336455,
     45581627, 45827020, 46072631, 46318461, 46564508, 46810773, 47057253, 47303949, 47550859,
     47797983, 48045321, 48292871, 48540632, 48788604, 49036787, 49285179, 49533780, 49782589,
     50031606, 50280829, 50530259, 50779893, 51029733, 51279776, 51530023, 51780473, 52031124,
     52281977, 52533031, 52784285, 53035738, 53287390, 53539241, 53791289, 54043534, 54295975,
     54548613, 54801445, 55054472, 55307693, 55561107, 55814714, 56068513, 56322504, 56576686,
     56831059, 57085621, 57340372, 57595313, 57850441, 58105758, 58361261, 58616951, 58872827,
     59128889, 59385135, 59641566, 59898181, 60154979, 60411960, 60669123, 60926468, 61183994,
     61441701, 61699589, 61957656, 62215902, 62474328, 62732931, 62991712, 63250671, 63509807,
     63769118, 64028606, 64288269, 64548107, 64808119, 65068306 >>

\* floor(10^6 * (v/300)**1.4 * 60) for v = 0..1000, entry v+1 (modbus-1-field.py line 98).
CoolingFromFanTab ==
  << 0, 20425, 53904, 95093, 142254, 194419, 250953, 311400, 375411, 442711, 513075, 586315,
     662270, 740802, 821789, 905126, 990716, 1078474, 1168323, 1260191, 1354015, 1449734,
     1547295, 1646646, 1747741, 1850535, 1954988, 2061060, 2168716, 2277921, 2388643, 2500851,
     2614516, 2729612, 2846111, 2963990, 3083223, 3203789, 3325665, 3448831, 3573267, 3698953,
     3825872, 3954006, 4083337, 4213849, 4345527, 4478354, 4612317, 4747401, 4883593, 5020878,
     5159245, 5298680, 5439171, 5580707, 5723276, 5866867, 6011470, 6157073, 6303666, 6451240,
     6599786, 6749292, 6899751, 7051153, 7203490, 7356753, 7510934, 7666024, 7822016, 7978902,
     8136675, 8295326, 8454849, 8615237, 8776483, 8938579, 9101520, 9265298, 9429908, 9595343,
     9761597, 9928664, 10096538, 10265213, 10434684, 10604945, 10775991, 10947816, 11120415,
     11293783, 11467914, 11642804, 11818449, 11994842, 12171979, 12349856, 12528468, 12707811,
     12887880, 13068670, 13250178, 13432399, 13615329, 13798964, 13983300, 14168333, 14354059,
     14540474, 14727575, 14915357, 15103817, 15292951, 15482756, 15673228, 15864364, 16056160,
     16248613, 16441719, 16635476, 16829879, 17024926, 17220614, 17416939, 17613899, 17811490,
     18009709, 18208553, 18408020, 18608106, 18808809, 19010126, 19212053, 19414589, 19617730,
     19821474, 20025819, 20230760, 20436297, 20642426, 20849145, 21056451, 21264341, 21472815,
     21681868, 21891498, 22101704, 22312482, 22523831, 22735748, 22948231, 23161277, 23374885,
     23589052, 23803776, 24019055, 24234887, 24451269, 24668200, 24885677, 25103699, 25322262,
     25541367, 25761009, 25981188, 26201901, 26423147, 26644924, 26867229, 27090061, 27313417,
     27537297, 27761698, 27986619, 28212057, 28438011, 28664479, 28891460, 29118951, 29346951,
     29575459, 29804472, 30033989, 30264008, 30494527, 30725546, 30957062, 31189074, 31421580,
     31654578, 31888068, 32122047, 32356514, 32591467, 32826905, 33062827, 33299231, 33536115,
     33773479, 34011320, 34249637, 34488428, 34727694, 34967431, 35207638, 35448315, 35689460,
     35931071, 36173147, 36415686, 36658689, 36902152, 37146075, 37390457, 37635296, 37880590,
     38126340, 38372543, 38619198, 38866304, 39113859, 39361864, 39610315, 39859212, 40108555,
     40358341, 40608569, 40859239, 41110349, 41361898, 41613885, 41866308, 42119167, 42372461,
     42626188, 42880347, 43134938, 43389958, 43645407, 43901284, 44157589, 44414318, 44671473,
     44929051, 45187052, 45445474, 45704317, 45963579, 46223260, 46483359, 46743874, 47004804,
     47266149, 47527907, 47790078, 48052661, 48315654, 48579057, 48842868, 49107087, 49371713,
     49636745, 49902182, 50168023, 50434267, 50700913, 50967960, 51235408, 51503256, 51771501,
     52040145, 52309185, 52578621, 52848453, 53118678, 53389297, 53660309, 53931712, 54203505,
     54475689, 54748262, 55021223, 55294572, 55568307, 55842428, 56116934, 56391824, 56667098,
     56942754, 57218792, 57495211, 57772011, 58049189, 58326747, 58604682, 58882994, 59161683,
     59440747, 59720186, 60000000, 60280186, 60560745, 60841676, 61122978, 61404651, 61686693,
     61969104, 62251883, 62535030, 62818543, 63102423, 63386668, 63671277, 63956251, 64241588,
     64527287, 64813348, 65099771, 65386554, 65673696, 65961198, 66249059, 66537277, 66825852,
     67114784, 67404072, 67693714, 67983712, 68274063, 68564767, 68855824, 69147233, 69438994,
     69731104, 70023565, 70316376, 70609535, 70903042, 71196897, 71491099, 71785647, 72080541,
     72375780, 72671364, 72967291, 73263562, 73560175, 73857131, 74154428, 74452066, 74750044,
     75048362, 75347020, 75646016, 75945350, 76245021, 76545029, 76845374, 77146054, 77447070,
     77748420, 78050105, 78352123, 78654473, 78957157, 79260172, 79563519, 79867196, 80171204,
     80475541, 80780208, 81085203, 81390526, 81696177, 82002155, 82308460, 82615090, 82922046,
     83229327, 83536933, 83844863, 84153116, 84461692, 84770590, 85079810, 85389352, 85699215,
     86009398, 86319901, 86630723, 86941865, 87253325, 87565103, 87877198, 88189611, 88502340,
     88815385, 89128745, 89442421, 89756411, 90070716, 90385334, 90700265, 91015509, 91331065,
     91646934, 91963113, 92279603, 92596404, 92913515, 93230936, 93548665, 93866703, 94185049,
     94503703, 94822664, 95141932, 95461507, 95781387, 96101573, 96422064, 96742860, 97063960,
     97385364, 97707071, 98029081, 98351393, 98674008, 98996924, 99320141, 99643660, 99967478,
     100291597, 100616015, 100940732, 101265748, 101591063, 101916675, 102242585, 102568792,
     102895295, 103222095, 103549191, 103876582, 104204268, 104532249, 104860524, 105189093,
     105517956, 105847112, 106176560, 106506301, 106836333, 107166658, 107497273, 107828179,
     108159376, 108490862, 108822638, 109154704, 109487058, 109819701, 110152632, 110485851,
     110819357, 111153150, 111487230, 111821596, 112156248, 112491185, 112826408, 113161915,
     113497707, 113833783, 114170143, 114506786, 114843712, 115180921, 115518412, 115856185,
     116194240, 116532576, 116871192, 117210090, 117549267, 117888725, 118228461, 118568477,
     118908772, 119249345, 119590197, 119931326, 120272733, 120614417, 120956377, 121298614,
     121641127, 121983916, 122326981, 122670320, 123013934, 123357823, 123701986, 124046422,
     124391132, 124736116, 125081372, 125426900, 125772701, 126118773, 126465118, 126811733,
     127158619, 127505776, 127853203, 128200900, 128548867, 128897103, 129245608, 129594381,
     129943424, 130292734, 130642312, 130992157, 131342270, 131692649, 132043295, 132394207,
     132745385, 133096829, 133448538, 133800513, 134152752, 134505255, 134858022, 135211054,
     135564349, 135917907, 136271728, 136625812, 136980158, 137334766, 137689637, 138044768,
     138400161, 138755815, 139111729, 139467904, 139824339, 140181033, 140537988, 140895201,
     141252673, 141610404, 141968394, 142326641, 142685147, 143043909, 143402929, 143762207,
     144121740, 144481531, 144841577, 145201879, 145562437, 145923251, 146284319, 146645642,
     147007220, 147369052, 147731138, 148093478, 148456071, 148818918, 149182017, 149545369,
     149908974, 150272830, 150636939, 151001299, 151365911, 151730773, 152095887, 152461251,
     152826865, 153192730, 153558844, 153925208, 154291821, 154658683, 155025794, 155393154,
     155760762, 156128618, 156496722, 156865073, 157233672, 157602517, 157971610, 158340949,
     158710534, 159080366, 159450443, 159820765, 160191334, 160562147, 160933205, 161304507,
     161676054, 162047846, 162419881, 162792159, 163164681, 163537446, 163910455, 164283705,
     164657199, 165030934, 165404911, 165779131, 166153591, 166528293, 166903236, 167278420,
     167653844, 168029509, 168405414, 168781559, 169157943, 169534567, 169911430, 170288532,
     170665873, 171043452, 171421270, 171799326, 172177619, 172556150, 172934919, 173313924,
     173693167, 174072646, 174452362, 174832314, 175212503, 175592927, 175973587, 176354482,
     176735612, 177116977, 177498577, 177880412, 178262481, 178644784, 179027321, 179410092,
     179793096, 180176333, 180559803, 180943507, 181327442, 181711611, 182096011, 182480643,
     182865508, 183250603, 183635931, 184021489, 184407278, 184793298, 185179548, 185566029,
     185952740, 186339681, 186726852, 187114252, 187501881, 187889739, 188277827, 188666143,
     189054687, 189443460, 189832461, 190221690, 190611146, 191000830, 191390741, 191780880,
     192171245, 192561837, 192952655, 193343700, 193734971, 194126467, 194518190, 194910138,
     195302311, 195694709, 196087333, 196480181, 196873253, 197266550, 197660071, 198053816,
     198447785, 198841978, 199236394, 199631033, 200025895, 200420980, 200816287, 201211817,
     201607570, 202003544, 202399740, 202796158, 203192798, 203589659, 203986741, 204384044,
     204781568, 205179312, 205577277, 205975462, 206373867, 206772492, 207171337, 207570401,
     207969684, 208369187, 208768908, 209168849, 209569008, 209969385, 210369981, 210770795,
     211171826, 211573076, 211974542, 212376227, 212778128, 213180247, 213582582, 213985134,
     214387902, 214790887, 215194088, 215597505, 216001137, 216404985, 216809049, 217213328,
     217617822, 218022531, 218427455, 218832593, 219237946, 219643513, 220049294, 220455289,
     220861497, 221267920, 221674555, 222081404, 222488466, 222895741, 223303229, 223710929,
     224118841, 224526966, 224935303, 225343852, 225752612, 226161584, 226570768, 226980162,
     227389768, 227799585, 228209613, 228619851, 229030299, 229440958, 229851827, 230262906,
     230674194, 231085693, 231497400, 231909317, 232321443, 232733779, 233146323, 233559075,
     233972036, 234385206, 234798584, 235212170, 235625963, 236039965, 236454174, 236868590,
     237283214, 237698044, 238113082, 238528326, 238943778, 239359435, 239775299, 240191369,
     240607645, 241024127, 241440815, 241857709, 242274807, 242692111, 243109620, 243527334,
     243945253, 244363377, 244781705, 245200237, 245618974, 246037915, 246457059, 246876408,
     247295960, 247715715, 248135674, 248555836, 248976201, 249396769, 249817539, 250238512,
     250659688, 251081066, 251502646, 251924428, 252346412, 252768598, 253190985, 253613573,
     254036363, 254459354, 254882546, 255305939, 255729533, 256153327, 256577322, 257001517,
     257425912, 257850507, 258275301, 258700296, 259125490, 259550884, 259976477, 260402269,
     260828260, 261254450, 261680838, 262107426, 262534211, 262961195, 263388377, 263815758,
     264243336, 264671112, 265099085, 265527256, 265955625, 266384191, 266812953, 267241913,
     267671069, 268100423, 268529972, 268959719, 269389661, 269819800, 270250134, 270680665,
     271111391, 271542312, 271973430, 272404742, 272836250, 273267953, 273699851, 274131943,
     274564231, 274996713, 275429389, 275862260, 276295324, 276728583, 277162036, 277595682,
     278029522, 278463556, 278897783, 279332203, 279766816, 280201622, 280636622, 281071813,
     281507198, 281942775, 282378544, 282814506, 283250659, 283687005, 284123542, 284560272,
     284997192, 285434305, 285871608, 286309103, 286746789, 287184666, 287622733, 288060992,
     288499441, 288938080, 289376910, 289815930, 290255140, 290694540, 291134130, 291573909,
     292013879, 292454037, 292894385, 293334923, 293775649, 294216564, 294657669, 295098962,
     295540443, 295982113, 296423972, 296866019, 297308254, 297750677, 298193287, 298636086,
     299079072, 299522246, 299965608, 300409156, 300852892, 301296815, 301740925, 302185221,
     302629705, 303074375, 303519231, 303964274, 304409503, 304854918, 305300519, 305746306,
     306192279, 306638438, 307084782, 307531312, 307978027, 308424927, 308872012, 309319282,
     309766737, 310214377, 310662201, 311110210, 311558403, 312006781, 312455343, 312904089,
     313353018, 313802132, 314251429, 314700910, 315150575, 315600423, 316050454, 316500668,
     316951065, 317401646, 317852409, 318303354, 318754483, 319205794, 319657287, 320108963,
     320560820, 321012860, 321465082, 321917486, 322370071, 322822838, 323275786, 323728916 >>

\* The next six decimal places of the terms: floor(10^12 * x) - 10^6 * floor(10^6 * x),
\* entry v+1, for x = (v/1000)**1.5 * 25 (modbus-1-field.py line 95).
HeatFromPumpPico ==
  << 0, 569415, 67977, 919181, 555320, 834764, 950038, 550464, 543819, 374206, 0, 243324,
     353450, 701315, 558481, 932677, 442562, 220444, 835392, 231572, 678118, 727917, 183358,
     67606, 600308, 176880, 350727, 817894, 403714, 51152, 810567, 830677, 350559, 692527,
     255773, 510671, 993649, 302570, 92551, 72166, 0, 681495, 966085, 744548, 946597, 538650,
     521779, 929816, 827602, 309359, 497187, 539661, 610525, 907480, 651042, 83487, 467853,
     87009, 242784, 255143, 461417, 215574, 887537, 862537, 540501, 335479, 675095, 35, 763553,
     431011, 479436, 397103, 683139, 847142, 408823, 897661, 852579, 821632, 361706, 38240,
     424949, 103565, 663594, 702071, 823339, 638827, 766840, 832363, 466864, 308112, 0, 192369,
     540852, 706711, 356687, 162852, 802471, 957866, 316282, 569766, 415042, 553394, 690556,
     536597, 805823, 216666, 491593, 357008, 543158, 784047, 817347, 384317, 229718, 101739,
     751919, 935074, 409223, 935524, 278201, 204484, 484541, 891421, 200990, 191880, 645422,
     345603, 79005, 634756, 804479, 382246, 164525, 950140, 540222, 738165, 349587, 182283,
     46191, 753347, 117849, 955820, 85370, 326564, 501380, 433685, 949192, 875437, 41741,
     279182, 420563, 300388, 754827, 621693, 740410, 951994, 99016, 25589, 577334, 601358,
     946233, 461971, 0, 413142, 555597, 282912, 451967, 920956, 549359, 197932, 728681, 4847,
     890887, 252455, 956386, 870676, 864471, 808043, 572779, 31164, 56765, 524216, 309203,
     288449, 339700, 341712, 174236, 718003, 854714, 467026, 438535, 653772, 998181, 358115,
     620819, 674421, 407917, 711167, 474875, 590585, 950667, 448307, 977499, 433031, 710478,
     706191, 317289, 441647, 977889, 825378, 884206, 55188, 239851, 340427, 259842, 901712,
     170331, 970664, 208342, 789650, 621524, 611538, 667902, 699453, 615644, 326545, 742828,
     775767, 337225, 339652, 696079, 320107, 125904, 28201, 942279, 783972, 469652, 916232,
     41151, 762379, 998400, 668217, 691339, 987780, 478052, 83159, 724595, 324337, 804838,
     89027, 100301, 762518, 0, 737518, 900298, 414009, 204761, 199102, 324012, 506898, 675593,
     758349, 683835, 381130, 779722, 809503, 400767, 484201, 990888, 852297, 286, 367090,
     885326, 487986, 108430, 680388, 137954, 415584, 448091, 170642, 518757, 428302, 835490,
     676876, 889353, 410150, 176830, 127286, 199736, 332725, 465119, 536101, 485172, 252145,
     777143, 598, 863247, 306130, 270585, 698251, 531058, 711233, 181288, 884027, 762538,
     760190, 820635, 887802, 905897, 819398, 573057, 111893, 381193, 326509, 893655, 28708,
     678002, 788126, 305927, 178502, 353199, 777615, 399593, 167223, 28833, 932997, 828525,
     664465, 390100, 954947, 308754, 401501, 183393, 604865, 616574, 169402, 214451, 703043,
     586719, 817236, 346567, 126895, 110618, 250343, 498886, 809270, 134723, 428678, 644769,
     736833, 658905, 365221, 810212, 948503, 734915, 124462, 72347, 533967, 464902, 820925,
     557991, 632241, 0, 617773, 442249, 430295, 538955, 725452, 947185, 161725, 326821, 400391,
     340525, 105484, 653695, 943756, 934431, 584648, 853500, 700244, 84299, 965244, 302820,
     56926, 187618, 655111, 419774, 442133, 682865, 102803, 662930, 324380, 48438, 796537,
     530259, 211332, 801631, 263175, 558130, 648803, 497643, 67244, 320336, 219794, 728627,
     809985, 427156, 543562, 122762, 128448, 524449, 274725, 343368, 694602, 292783, 102393,
     88048, 214488, 446584, 749331, 87852, 427393, 733328, 971151, 106480, 105058, 932746,
     555527, 939506, 50904, 856064, 321445, 413624, 99295, 345266, 118464, 385928, 114810,
     272379, 826013, 743205, 991556, 538781, 352704, 401258, 652486, 74537, 635670, 304250,
     48749, 837745, 639920, 424061, 159061, 813915, 357720, 759677, 989088, 15357, 807988,
     336585, 570853, 480594, 35710, 206200, 962162, 273789, 111373, 445298, 246047, 484195,
     130415, 155471, 530220, 225613, 212695, 462599, 946553, 635874, 501969, 516338, 650566,
     876330, 165396, 489616, 820930, 131368, 393042, 578155, 658993, 607927, 397416, 0, 388305,
     535041, 413000, 995057, 254172, 163382, 695811, 824659, 523212, 764831, 522962, 771127,
     482928, 632046, 192242, 137352, 441291, 78052, 21704, 246392, 726338, 435839, 349268,
     441072, 685774, 57971, 532331, 83601, 686596, 316206, 947394, 555194, 114712, 601127,
     989686, 255710, 374588, 321780, 72817, 603296, 888887, 905327, 628420, 34041, 98131,
     796699, 105821, 1640, 460364, 458271, 971702, 977063, 450828, 369534, 709784, 448243,
     561644, 26780, 820510, 919756, 301502, 942795, 820745, 912524, 195364, 646562, 243474,
     963516, 784167, 682967, 637512, 625463, 624537, 612512, 567225, 466573, 288508, 11044,
     612252, 70260, 363255, 469480, 367235, 34878, 450824, 593541, 441558, 973456, 167873,
     3502, 459092, 513446, 145422, 333932, 57944, 296476, 28604, 233456, 890212, 978106,
     476425, 364509, 621749, 227590, 161527, 403108, 931932, 727650, 769962, 38622, 513431,
     174245, 965, 973546, 71991, 276353, 566734, 923287, 326212, 755757, 192222, 615952, 7341,
     346834, 614919, 792134, 859066, 796346, 584655, 204718, 637309, 863247, 863398, 618674,
     110032, 318477, 225057, 810867, 57047, 944780, 455296, 569870, 269819, 536508, 351341,
     695771, 551292, 899442, 721803, 0, 715700, 850614, 386497, 305143, 588393, 218126, 176267,
     444778, 5668, 840985, 932817, 263297, 814596, 568927, 508545, 615743, 872857, 262262,
     766374, 367649, 48581, 791706, 579600, 394875, 220186, 38226, 831726, 583457, 276227,
     892886, 416318, 829449, 115241, 256695, 236849, 38779, 645600, 40461, 206553, 127100,
     785364, 164646, 248282, 19644, 462142, 559222, 294365, 651089, 612949, 163533, 286468,
     965415, 184069, 926163, 175463, 915771, 130925, 804795, 921288, 464346, 417943, 766088,
     492826, 582235, 18426, 785545, 867771, 249317, 914429, 847388, 32505, 454127, 96632,
     944434, 981975, 193735, 564221, 77978, 719578, 473629, 324770, 257671, 257034, 307596,
     394120, 501406, 614281, 717606, 796273, 835204, 819353, 733703, 563271, 293103, 908274,
     393892, 735093, 917046, 924949, 744028, 359543, 756779, 921055, 837718, 492144, 869740,
     955939, 736208, 196040, 320958, 96513, 508286, 541887, 182953, 417152, 230178, 607756,
     535636, 999599, 985454, 479036, 466209, 932866, 864926, 248337, 69073, 313137, 966558,
     15394, 445729, 243675, 395369, 886977, 704692, 834732, 263343, 976797, 961393, 203457,
     689339, 405418, 338097, 473807, 799004, 300169, 963810, 776462, 724683, 795058, 974198,
     248738, 605339, 30688, 511496, 34501, 586463, 154170, 724433, 284089, 819998, 319046,
     768144, 154227, 464253, 685207, 804095, 807950, 683829, 418811, 0, 414524, 649535, 692209,
     529745, 149366, 538318, 683870, 573317, 193974, 533181, 578301, 316721, 735848, 823116,
     565978, 951912, 968420, 603024, 843269, 676724, 90980, 73649, 612368, 694793, 308606,
     441507, 81222, 215495, 832096, 918814, 463461, 453871, 877898, 723420, 978335, 630563,
     668044, 78743, 850642, 971747, 430084, 213701, 310666, 709068, 397019, 362649, 594110,
     79576, 807240, 765315, 942038, 325662, 904463, 666739, 600804, 694996, 937671, 317207,
     822000, 440468, 161047, 972195, 862389, 820125, 833919, 892309, 983849, 97115, 220701,
     343223, 453313, 539625, 590831, 595624, 542713, 420829, 218720, 925156, 528922, 18825,
     383691, 612361, 693700, 616588, 369924, 942629, 323637, 501905, 466408, 206136, 710101,
     967333, 966877, 697800, 149185, 310134, 169767, 717222, 941653, 832235, 378159, 568635,
     392889, 840166, 899729, 560857, 812849, 645018, 46698, 7238, 516006, 562386, 135781,
     225609, 821307, 912328, 488142, 538238, 52119, 19308, 429342, 271778, 536186, 212156,
     289294, 757222, 605578, 824018, 402215, 329856, 596647, 192309, 106581, 329215, 849982,
     658670, 745081, 99033, 710363, 568921, 664574, 987206, 526716, 273018, 216044, 345741,
     652071, 125011, 754557, 530718, 443519, 483000, 639218, 902245, 262168, 709090, 233129,
     824417, 473105, 169355, 903347, 665275, 445349, 233793, 20847, 796765, 551818, 276288,
     960477, 594698, 169281, 674568, 100920, 438710, 678325, 810168, 824657, 712223, 463313,
     68388, 517924, 802409, 912349, 838261, 570679, 100150, 417235, 512509, 376563, 0 >>

\* floor(10^12 * x) - 10^6 * floor(10^6 * x), entry v+1, for x = (v/200)**1.2 * 40 (modbus-1-field.py line 97).
HeatFromHeaterPico ==
  << 0, 484315, 868221, 593025, 41541, 249895, 303569, 189638, 897409, 381239, 543306, 425808,
     724868, 643759, 457675, 847250, 427694, 110773, 62042, 93089, 377920, 415071, 178842,
     418113, 71717, 776932, 453090, 946376, 724857, 615109, 573511, 486631, 996192, 344902,
     240108, 732748, 109490, 796296, 271930, 990134, 309421, 429549, 333907, 737128, 37340,
     272559, 80768, 663307, 751228, 574323, 832551, 669659, 648753, 729672, 247984, 895459,
     701902, 18217, 500598, 95768, 27159, 781981, 99087, 957591, 566169, 352999, 956291,
     215356, 162195, 13548, 163385, 175807, 778325, 855497, 442894, 721379, 11670, 769189,
     579147, 151885, 318429, 26266, 335303, 414033, 535861, 75607, 506155, 395261, 402495,
     276315, 851268, 45308, 857225, 364186, 719369, 149697, 953663, 499239, 221870, 622540,
     265922, 778589, 847297, 217332, 690915, 125671, 433146, 577386, 573557, 486622, 430059,
     564623, 97157, 279434, 407046, 818325, 893301, 52697, 756950, 505273, 834738, 319393,
     569407, 230236, 981826, 537826, 644837, 81679, 658679, 216979, 627872, 792148, 639463,
     127727, 242511, 996466, 428758, 604530, 614363, 573762, 622655, 924902, 667821, 61723,
     339466, 756009, 587993, 133318, 710743, 659487, 338847, 127821, 424746, 646937, 230340,
     629198, 315714, 779732, 528421, 85969, 993281, 807687, 102659, 467527, 507210, 841947,
     107041, 952600, 43292, 58099, 690084, 646155, 646840, 426064, 730936, 321530, 970683,
     463790, 598602, 185040, 44995, 12146, 931780, 660609, 66596, 28786, 437136, 192351,
     205723, 398976, 704105, 63231, 428450, 761686, 34550, 228200, 333205, 349407, 285792,
     160361, 0, 840358, 725727, 708917, 851140, 221899, 898867, 967785, 522344, 664084, 502286,
     153870, 743292, 402447, 270569, 494135, 226771, 629160, 868951, 120668, 565624, 391830,
     793919, 973053, 136846, 499282, 280637, 707400, 12194, 433707, 216609, 611489, 874773,
     268663, 61061, 525503, 941093, 592434, 769566, 767901, 888159, 436306, 723497, 66010,
     785189, 207390, 663918, 490972, 29593, 625605, 629563, 396701, 286877, 664525, 898602,
     362538, 434189, 495785, 933888, 139338, 507212, 436777, 331443, 598721, 650179, 901399,
     771933, 685263, 68759, 353638, 974926, 371415, 985627, 263774, 655722, 614951, 598519,
     67029, 484588, 318774, 40603, 124492, 48224, 292920, 343000, 686153, 813307, 218593,
     399316, 855924, 91979, 614123, 932053, 558488, 9142, 802696, 460767, 507883, 471455,
     881750, 271861 >>

\* floor(10^12 * x) - 10^6 * floor(10^6 * x), entry v+1, for x = (v/300)**1.4 * 60 (modbus-1-field.py line 98).
CoolingFromFanPico ==
  << 0, 913752, 309561, 591547, 325781, 355829, 492621, 101504, 416419, 707452, 756048, 334661,
     237501, 69649, 794702, 450481, 667520, 755344, 200351, 468488, 37863, 607711, 444587,
     836757, 634905, 862435, 382439, 611193, 270204, 170398, 23320, 275172, 960256, 571041,
     942491, 148731, 410407, 11369, 223517, 238799, 107532, 682296, 566793, 69101, 158872,
     428041, 54701, 769814, 826488, 971565, 419305, 826982, 272196, 231773, 562105, 480793,
     549513, 657978, 8915, 103987, 730569, 949323, 82512, 702987, 623816, 888487, 761668,
     720459, 446126, 816271, 897409, 937931, 361424, 760328, 889898, 662477, 142027, 538930,
     205034, 628918, 431386, 361157, 290745, 212529, 234985, 579086, 574848, 658032, 366971,
     339534, 310213, 107322, 650311, 947189, 92035, 262619, 718101, 796827, 914198, 560623,
     299545, 765537, 662471, 761740, 900560, 980314, 964963, 879506, 808497, 894607, 337232,
     391157, 365249, 621201, 572319, 682336, 464275, 479337, 335836, 688151, 235723, 722077,
     933868, 699969, 890567, 416304, 227427, 312977, 699987, 452711, 671873, 493939, 90402,
     667092, 463507, 752156, 837921, 57440, 778502, 399462, 348661, 83878, 91779, 887390,
     13582, 40564, 565398, 211511, 628237, 490358, 497655, 374484, 869340, 754454, 825383,
     900620, 821203, 450345, 673061, 395813, 546157, 72398, 943258, 147545, 693836, 610157,
     943681, 760429, 144970, 200139, 46754, 823341, 685864, 807459, 378179, 604742, 710277,
     934087, 531409, 773180, 945813, 350966, 305329, 140407, 202309, 851541, 462804, 424796,
     140015, 24571, 507997, 33065, 55603, 44326, 480651, 858538, 684313, 476510, 765706, 94367,
     16687, 98440, 916827, 60330, 128569, 732157, 492561, 41968, 23145, 89312, 904007, 140962,
     483975, 626787, 272961, 135762, 938040, 412113, 299657, 351590, 327965, 997860, 139274,
     539022, 992630, 304235, 286485, 760445, 555493, 509232, 467392, 283740, 819991, 945714,
     538250, 482622, 671451, 4872, 390451, 743106, 985023, 45581, 861274, 375629, 539141,
     309187, 649963, 532404, 934120, 839318, 238742, 129598, 515490, 406353, 818389, 774001,
     301733, 436202, 218043, 693844, 916086, 943089, 838947, 673476, 522152, 466062, 591844,
     991634, 763013, 8953, 837765, 363050, 703645, 983573, 331997, 883168, 776377, 155908,
     170995, 975767, 729211, 595121, 742058, 343301, 576810, 625175, 675581, 919765, 553969,
     778906, 799718, 825934, 71432, 754401, 97303, 326833, 673885, 373510, 664886, 791277, 0,
     542387, 673756, 653370, 744407, 213924, 332830, 375843, 621467, 351957, 853283, 415108,
     330748, 897146, 414843, 187943, 524092, 734439, 133614, 39699, 774195, 662002, 31383,
     213943, 544601, 361559, 6283, 823470, 161028, 370045, 804769, 822580, 783967, 52501,
     994814, 980575, 382463, 576148, 940264, 856391, 709027, 885569, 776290, 774317, 275611,
     678943, 385873, 800731, 330596, 385273, 377276, 721804, 836726, 142556, 62438, 22123,
     449954, 776842, 436253, 864182, 499145, 782149, 156684, 68699, 966588, 301169, 525670,
     95712, 469287, 106748, 470787, 26423, 240981, 584081, 527618, 545745, 114865, 713606,
     822812, 925524, 506969, 54541, 57787, 8395, 400177, 729054, 493045, 192249, 328835,
     407023, 933077, 415283, 363945, 291363, 711826, 141594, 98891, 103886, 678682, 347306,
     635695, 71682, 184985, 507195, 571763, 913991, 71013, 581794, 987107, 829530, 653430,
     4954, 432016, 484286, 713180, 671848, 915166, 999719, 483797, 927381, 892132, 941383,
     640127, 555007, 254305, 307934, 287427, 765927, 318176, 520508, 950838, 188650, 814992,
     412464, 565209, 858902, 880747, 219459, 465262, 209877, 46513, 569860, 376080, 62795,
     229082, 475464, 403902, 617782, 721915, 322519, 27220, 445038, 186381, 863035, 88162,
     476282, 643278, 206374, 784142, 996481, 464619, 811101, 659783, 635823, 365678, 477090,
     599084, 361959, 397283, 337881, 817833, 472466, 938344, 853266, 856254, 587552, 688615,
     802102, 571874, 642982, 661667, 275344, 132607, 883213, 178081, 669286, 10048, 854733,
     858840, 678998, 972963, 399606, 618911, 291968, 80968, 649196, 661027, 781916, 678399,
     18083, 469638, 702800, 388356, 198144, 805046, 882985, 106914, 152817, 697699, 419585,
     997510, 111517, 442654, 672962, 485476, 564219, 594194, 261382, 252737, 256180, 960593,
     55817, 232647, 182823, 599030, 174894, 604971, 584749, 810641, 979979, 791011, 942897,
     135703, 70400, 448852, 973822, 348958, 278796, 468751, 625114, 455050, 666592, 968633,
     70931, 684096, 519591, 289726, 707653, 487366, 343692, 992291, 149649, 533078, 860707,
     851482, 225161, 702310, 4300, 853302, 972284, 85008, 916024, 190670, 635063, 976103,
     941461, 259582, 659677, 871724, 626459, 655378, 690729, 465511, 713472, 169100, 567626,
     645019, 137979, 783937, 321053, 488208, 25006, 671767, 169526, 260028, 685727, 189779,
     516046, 409084, 614146, 877179, 944816, 564378, 483870, 451976, 218055, 532145, 144952,
     807850, 272881, 292747, 620811, 11093, 218265, 997654, 105232, 297617, 332072, 966497,
     959431, 70048, 58153, 684181, 709192, 894872, 3526, 798080, 42073, 499660, 935606, 115284,
     804672, 770353, 779508, 599920, 999963, 748608, 615414, 370531, 784691, 629213, 675995,
     697514, 466823, 757550, 343892, 619, 503063, 627124, 149264, 846503, 496420, 877149,
     767376, 946341, 193830, 290175, 16255, 153488, 483834, 789789, 854387, 461193, 394304,
     438347, 378476, 368, 90225, 434769, 821242, 37400, 871516, 112375, 549273, 972015, 170910,
     936774, 60927, 335186, 551870, 503793, 984265, 787089, 706557, 537454, 75049, 115098,
     453840, 887996, 214766, 231830, 737342, 529931, 408700, 173221, 623536, 560154, 784048,
     96657, 299880, 196078, 588068, 279127, 72983, 773821, 186275, 115430, 366819, 746422,
     60663, 116410, 720971, 682098, 807976, 907229, 788918, 262535, 138004, 225681, 336348,
     281217, 871923, 920527, 239512, 641781, 940657, 949881, 483611, 356417, 383287, 379615,
     161211, 544291, 345478, 381802, 470697, 430000, 77951, 233187, 714747, 342065, 934972,
     313694, 298848, 711445, 372884, 104955, 729834, 70084, 948653, 188872, 614453, 49491,
     318458, 246206, 657964, 379335, 236295, 55197, 662762, 886082, 552618, 490200, 527023,
     491648, 212998, 520362, 243387, 212082, 256815, 208311, 897652, 156274, 815969, 708880,
     667502, 524682, 113615, 267844, 821259, 608095, 462933, 220696, 716651, 786404, 265902,
     991430, 799612, 527408, 12113, 91355, 603099, 385638, 277597, 117934, 745930, 1199,
     723678, 753632, 931648, 98639, 95838, 764801, 947402, 485837, 222617, 573, 662849, 52907,
     14521, 391778, 29077, 771129, 462954, 949880, 77545, 691892, 639171, 765937, 919047,
     945663, 693249, 9569, 742687, 740966, 853070, 927955, 814878, 363389, 423332, 844846,
     478361, 174598, 784572, 159585, 151227, 611378, 392205, 346159, 325978, 184684, 775581,
     952258, 568584, 478709, 537062, 598353, 517569, 149974, 351109, 976789, 883107, 926427,
     963387, 850896, 446137, 606560, 189888, 54111, 57487, 58541, 916066, 489119, 637022,
     219362, 95987, 127008, 172800, 93996, 751490, 6435, 720242, 754580, 971374, 232808,
     401317, 339594, 910583, 977483, 403745, 53071, 789414, 476975, 980208, 163812, 892736,
     32175, 447570, 4609, 569223, 7589, 186124, 971493, 230598, 830584, 638838, 522984, 350887,
     990650, 310614, 179356, 465691, 38668, 767571, 521920, 171467, 586196, 636326, 192306,
     124815, 304764, 603293, 891769, 41790, 925180, 413991, 380499, 697208, 236847, 872367,
     476945, 923979, 87092, 840126, 57146, 612437, 380504, 236070, 54079, 709691, 78284, 35453,
     457010, 218980, 197605, 269342, 310860, 199041, 810981, 23988, 715579, 763485, 45644,
     440207, 825531, 80183, 82938, 712776, 848887, 370665, 157710, 89827, 47026, 909520,
     557725, 872262, 733951, 23815, 623079, 413168, 275706, 92516, 745623, 117248, 89808,
     545921, 368400, 440254, 644687, 865099, 985085, 888434, 459127, 581340, 139439, 17985,
     101729, 275611, 424766, 434513, 190367, 578025, 483379, 792504, 391664, 167310, 6080,
     794797, 420469, 770290, 731638, 192074, 39345, 161377, 446282, 782352, 58061, 162065,
     983198, 410478, 333098, 640433, 222036, 967639, 767151, 510657, 88420, 390880, 308652,
     732527, 553469 >>

\* The (temperature, max_throughput) pairs at which the double-precision product
\* max_throughput * (1 - temp_penalty) of modbus-1-field.py line 77 falls just below the
\* exact integer max_throughput*(170-temperature)/100, so that int() yields one less.
RawThroughputShort(t) ==
  CASE t = 77 -> {500, 1000}
    [] t = 100 -> {90, 170, 180, 330, 340, 350, 360, 650, 660, 670, 680, 690, 700, 710, 720, 730}
    [] t = 101 -> {300, 600, 700}
    [] t = 102 -> {75, 125, 150, 175, 250, 275, 300, 325, 350, 375, 475, 500, 525, 550, 575, 600,
            625, 650, 675, 700, 725, 750, 925, 950, 975, 1000}
    [] t = 103 -> {300, 500, 600, 700, 900, 1000}
    [] t = 104 -> {50, 100, 150, 200, 250, 300, 350, 400, 450, 500, 550, 600, 650, 700, 750, 800,
            850, 900, 950, 1000}
    [] t = 124 -> {250, 450, 500, 550, 850, 900, 950, 1000}
    [] t = 125 -> {60, 100, 120, 140, 180, 200, 220, 240, 260, 280, 340, 360, 380, 400, 420, 440,
            460, 480, 500, 520, 540, 560, 660, 680, 700, 720, 740, 760, 780, 800, 820, 840, 860,
            880, 900, 920, 940, 960, 980, 1000}
    [] t = 126 -> {50, 75, 100, 125, 150, 175, 200, 225, 250, 275, 300, 325, 350, 375, 400, 425,
            450, 475, 500, 525, 550, 575, 600, 625, 650, 675, 700, 725, 750, 775, 800, 825, 850,
            875, 900, 925, 950, 975, 1000}
    [] t = 135 -> {180, 340, 360, 660, 680, 700, 720}
    [] t = 136 -> {150, 250, 300, 350, 500, 550, 600, 650, 700, 750, 950, 1000}
    [] t = 137 -> {100, 200, 300, 400, 500, 600, 700, 800, 900, 1000}
    [] t = 138 -> {75, 100, 125, 150, 175, 200, 225, 250, 275, 300, 325, 350, 375, 400, 425, 450,
            475, 500, 525, 550, 575, 600, 625, 650, 675, 700, 725, 750, 775, 800, 825, 850, 875,
            900, 925, 950, 975, 1000}
    [] t = 147 -> {500, 900, 1000}
    [] t = 148 -> {100, 150, 200, 250, 300, 350, 400, 450, 500, 550, 600, 650, 700, 750, 800,
            850, 900, 950, 1000}
    [] t = 149 -> {100, 200, 300, 400, 500, 600, 700, 800, 900, 1000}
    [] t = 150 -> {105, 110, 115, 120, 125, 130, 135, 140, 145, 150, 155, 160, 165, 170, 175,
            180, 185, 190, 195, 200, 205, 210, 215, 220, 225, 230, 235, 240, 245, 250, 255, 260,
            265, 270, 275, 280, 285, 290, 295, 300, 305, 310, 315, 320, 325, 330, 335, 340, 345,
            350, 355, 360, 365, 370, 375, 380, 385, 390, 395, 400, 405, 410, 415, 420, 425, 430,
            435, 440, 445, 450, 455, 460, 465, 470, 475, 480, 485, 490, 495, 500, 505, 510, 515,
            520, 525, 530, 535, 540, 545, 550, 555, 560, 565, 570, 575, 580, 585, 590, 595, 600,
            605, 610, 615, 620, 625, 630, 635, 640, 645, 650, 655, 660, 665, 670, 675, 680, 685,
            690, 695, 700, 705, 710, 715, 720, 725, 730, 735, 740, 745, 750, 755, 760, 765, 770,
            775, 780, 785, 790, 795, 800, 805, 810, 815, 820, 825, 830, 835, 840, 845, 850, 855,
            860, 865, 870, 875, 880, 885, 890, 895, 900, 905, 910, 915, 920, 925, 930, 935, 940,
            945, 950, 955, 960, 965, 970, 975, 980, 985, 990, 995, 1000}
    [] t = 151 -> {200, 300, 400, 500, 600, 700, 800, 900, 1000}
    [] t = 159 -> {200, 300, 400, 500, 600, 700, 800, 900, 1000}
    [] t = 160 -> {210, 220, 230, 240, 250, 260, 270, 280, 290, 300, 310, 320, 330, 340, 350,
            360, 370, 380, 390, 400, 410, 420, 430, 440, 450, 460, 470, 480, 490, 500, 510, 520,
            530, 540, 550, 560, 570, 580, 590, 600, 610, 620, 630, 640, 650, 660, 670, 680, 690,
            700, 710, 720, 730, 740, 750, 760, 770, 780, 790, 800, 810, 820, 830, 840, 850, 860,
            870, 880, 890, 900, 910, 920, 930, 940, 950, 960, 970, 980, 990, 1000}
    [] t = 161 -> {300, 400, 500, 600, 700, 800, 900, 1000}
    [] t = 162 -> {275, 300, 325, 350, 375, 400, 425, 450, 475, 500, 525, 550, 575, 600, 625,
            650, 675, 700, 725, 750, 775, 800, 825, 850, 875, 900, 925, 950, 975, 1000}
    [] t = 163 -> {300, 400, 500, 600, 700, 800, 900, 1000}
    [] OTHER -> {}

\* Entry i of a table whose first entry is that of index 0.  The tables cover
\* the values the two programs write to the slot; there is no entry, and no
\* value of the term, for an index past the table.
Lookup(tab, i) == tab[i + 1]

-----------------------------------------------------------------------------
(* The register maps (LABELS) of the two Controller variants. *)

CoIdx(v) == IF v = "A" THEN 0..5 ELSE 0..3
DiIdx(v) == IF v = "A" THEN 0..3 ELSE 0..2
IrIdx(v) == IF v = "A" THEN 0..5 ELSE 0..4
HrIdx(v) == IF v = "A" THEN 0..7 ELSE 0..5

\* The Emergency Stop coil and the Mode holding register of each variant.
EStopCoil(v) == IF v = "A" THEN 4 ELSE 3
ModeReg(v) == IF v = "A" THEN 4 ELSE 5

\* A bank of zeros: ModbusSequentialDataBlock(0, [0]*100) for each space.
ZeroBank(v) ==
  [co |-> [i \in CoIdx(v) |-> 0], di |-> [i \in DiIdx(v) |-> 0],
   ir |-> [i \in IrIdx(v) |-> 0], hr |-> [i \in HrIdx(v) |-> 0]]

\* A snapshot without sections' keys (the content of no file).
NoData == [co |-> EmptyFn, di |-> EmptyFn, ir |-> EmptyFn, hr |-> EmptyFn]

-----------------------------------------------------------------------------
(* modbus-1-plc.py: plc_logic. *)

\* int(TARGET_THROUGHPUT / (1 - penalty_factor)), ZeroDivisionError -> 1000.
\* In double precision the quotient falls just short of the exact value
\* 10000/(170 - temp) at the temperatures of FloatShort.
FloatShort == {154, 165, 166, 168, 169, 171, 172, 174, 175, 178, 180}
\* A faulty required_voltage, kept to show that the properties below tell the two apart:
\* the zero denominator falls back to the target throughput, not to the maximum.
required_voltage_floor_mut(temp) ==
  IF temp <= 70 \/ temp = 170 THEN 100
  ELSE LET q == TruncDiv(10000, 170 - temp)
       IN IF temp \in FloatShort THEN (IF q > 0 THEN q - 1 ELSE q + 1) ELSE q

\* required_voltage of lines 159-163, for throughput >= 20.
required_voltage(temp) ==
  IF temp <= 70 THEN 100
  ELSE IF temp = 170 THEN 1000
  ELSE LET q == TruncDiv(10000, 170 - temp)
       IN IF temp \in FloatShort THEN (IF q > 0 THEN q - 1 ELSE q + 1) ELSE q

\* int((temp - target_temp) * 2.5): truncation of 5d/2 toward zero.
drpm_raw(temp, target_temp) == TruncDiv(5 * (temp - target_temp), 2)

\* A faulty manual_branch, kept to show that the properties below tell the two apart:
\* the sum is written without the clamp to 0..1000.
manual_branch_mut(b, rd) ==
  LET signed_delta == int16_signed(rd.hr[5])
      current_pv == b.ir[0]
      new_pv == current_pv + signed_delta
  IN IF signed_delta # 0
       THEN [b EXCEPT !.ir[0] = new_pv, !.hr[5] = 0]
       ELSE b

\* The MANUAL branch (lines 143-150): rd is what the cycle read at its start.
manual_branch(b, rd) ==
  LET signed_delta == int16_signed(rd.hr[5])
      current_pv == b.ir[0]
      new_pv == clamp(current_pv + signed_delta, 0, 1000)
  IN IF signed_delta # 0
       THEN [b EXCEPT !.ir[0] = new_pv, !.hr[5] = 0]
       ELSE b

\* A faulty auto_pump, kept to show that the properties below tell the two apart:
\* the setpoint is limited from above only.
auto_pump_mut(b, rd) ==
  LET pv == rd.ir[0]
      temp == rd.ir[1]
      throughput == rd.ir[3]
      required == IF throughput < 20 THEN 250 ELSE required_voltage(temp)
      new_pv == Min(required, 1000)
  IN IF new_pv # pv THEN [b EXCEPT !.ir[0] = new_pv] ELSE b

\* The AUTO pump setpoint (lines 153-168).
auto_pump(b, rd) ==
  LET pv == rd.ir[0]
      temp == rd.ir[1]
      throughput == rd.ir[3]
      required == IF throughput < 20 THEN 250 ELSE required_voltage(temp)
      new_pv == clamp(required, 200, 1000)
  IN IF new_pv # pv THEN [b EXCEPT !.ir[0] = new_pv] ELSE b

\* A faulty auto_fan, kept to show that the properties below tell the two apart:
\* the step is not limited to 80.
auto_fan_mut(b, rd) ==
  LET temp == rd.ir[1]
      rpm == rd.ir[4]
      target_temp == rd.hr[0]
      new_rpm == clamp(rpm + drpm_raw(temp, target_temp), 0, 1000)
  IN IF new_rpm # rpm THEN [b EXCEPT !.ir[4] = new_rpm] ELSE b

\* The AUTO fan adjustment (lines 170-175).
auto_fan(b, rd) ==
  LET temp == rd.ir[1]
      rpm == rd.ir[4]
      target_temp == rd.hr[0]
      drpm == clamp(drpm_raw(temp, target_temp), -80, 80)
      new_rpm == clamp(rpm + drpm, 0, 1000)
  IN IF new_rpm # rpm THEN [b EXCEPT !.ir[4] = new_rpm] ELSE b

\* A faulty auto_heater, kept to show that the properties below tell the two apart:
\* no band, the heater goes off as soon as the target is reached.
auto_heater_mut(b, rd) ==
  LET temp == rd.ir[1]
      target_temp == rd.hr[0]
  IN IF temp < target_temp - 1
       THEN [b EXCEPT !.co[3] = 1,
                      !.ir[5] = clamp((target_temp - temp) * 4, 0, 300)]
       ELSE [b EXCEPT !.co[3] = 0, !.ir[5] = 0]

\* The AUTO heater hysteresis (lines 177-185).
auto_heater(b, rd) ==
  LET temp == rd.ir[1]
      target_temp == rd.hr[0]
  IN IF temp < target_temp - 1
       THEN [b EXCEPT !.co[3] = 1,
                      !.ir[5] = clamp((target_temp - temp) * 4, 0, 300)]
       ELSE IF temp > target_temp + 2
         THEN [b EXCEPT !.co[3] = 0, !.ir[5] = 0]
         ELSE b

\* A faulty auto_relief, kept to show that the properties below tell the two apart:
\* an open valve is not closed again.
auto_relief_mut(b, rd) ==
  LET press == rd.ir[2]
      relief_thresh == rd.hr[6]
      bleed_rate == rd.hr[7]
  IN IF press > relief_thresh
       THEN [b EXCEPT !.co[5] = 1, !.ir[2] = clamp(press - bleed_rate, 0, 1500)]
       ELSE b

\* The AUTO pressure relief valve (lines 187-194).
auto_relief(b, rd) ==
  LET press == rd.ir[2]
      relief_thresh == rd.hr[6]
      bleed_rate == rd.hr[7]
  IN IF press > relief_thresh
       THEN [b EXCEPT !.co[5] = 1, !.ir[2] = clamp(press - bleed_rate, 0, 1500)]
       ELSE [b EXCEPT !.co[5] = 0]

\* The AUTO branch (lines 152-194).
auto_branch(b, rd) == auto_relief(auto_heater(auto_fan(auto_pump(b, rd), rd), rd), rd)

\* A faulty alarm_value, kept to show that the properties below tell the two apart:
\* both thresholds must be exceeded.
alarm_value_mut(rd) ==
  IF rd.ir[1] > rd.hr[2] /\ rd.ir[2] > rd.hr[3] THEN 1 ELSE 0

\* The alarm coil (lines 196-199).
alarm_value(rd) ==
  IF rd.ir[1] > rd.hr[2] \/ rd.ir[2] > rd.hr[3] THEN 1 ELSE 0

\* Alarm and fan coils (lines 196-205).
post_process(b, rd) ==
  LET alarm == alarm_value(rd)
      b1 == IF rd.co[1] # alarm THEN [b EXCEPT !.co[1] = alarm] ELSE b
      fan_rpm == b1.ir[4]
      fan_on == IF fan_rpm > 0 THEN 1 ELSE 0
  IN IF rd.co[2] # fan_on THEN [b1 EXCEPT !.co[2] = fan_on] ELSE b1

\* A faulty emergency_stop, kept to show that the properties below tell the two apart:
\* the pump and heating coils are switched off as well.
emergency_stop_coils_mut(b) ==
  [b EXCEPT !.ir[0] = 0, !.ir[4] = 0, !.ir[5] = 0, !.co[0] = 0, !.co[3] = 0]

\* A faulty emergency_stop, kept to show that the properties below tell the two apart:
\* the heater power is left as it is.
emergency_stop_mut(b) == [b EXCEPT !.ir[0] = 0, !.ir[4] = 0]

\* The emergency stop branch (lines 131-136).
emergency_stop(b) == [b EXCEPT !.ir[0] = 0, !.ir[4] = 0, !.ir[5] = 0]

\* plc_logic on the live bank b, with rd the registers read at lines 117-119.
plc_logic_run(b, rd) ==
  LET mode == rd.hr[4]
  IN IF rd.co[4] = 1 THEN emergency_stop(b)
     ELSE IF mode = 0 THEN b
     ELSE LET b0 == [b EXCEPT !.co[0] = 1]
              b1 == IF mode = 2 THEN manual_branch(b0, rd)
                    ELSE IF mode = 1 THEN auto_branch(b0, rd)
                    ELSE b0
          IN post_process(b1, rd)

\* One uninterrupted execution of plc_logic.
plc_logic(b) == plc_logic_run(b, b)

-----------------------------------------------------------------------------
(* modbus-plc1.py: plc_logic. *)

\* Pump voltage adjustment (lines 150-158).
new_pump_voltage_plc1(pump_voltage, pressure, target_pressure) ==
  IF pressure > target_pressure + 10 THEN Max(0, pump_voltage - 28)
  ELSE IF pressure > target_pressure + 5 THEN Max(0, pump_voltage - 8)
  ELSE IF pressure < target_pressure - 10 THEN Min(1000, pump_voltage + 28)
  ELSE IF pressure < target_pressure - 5 THEN Min(1000, pump_voltage + 8)
  ELSE pump_voltage

\* Fan voltage adjustment (lines 165-173).
new_fan_voltage_plc1(fan_voltage, temperature, target_temp) ==
  IF temperature > target_temp + 3 THEN Min(1000, fan_voltage + 10)
  ELSE IF temperature > target_temp + 1 THEN Min(1000, fan_voltage + 5)
  ELSE IF temperature < target_temp - 3 THEN Max(0, fan_voltage - 10)
  ELSE IF temperature < target_temp - 1 THEN Max(0, fan_voltage - 5)
  ELSE fan_voltage

\* The emergency stop branch (lines 134-142).
emergency_stop_plc1(b, rd) ==
  LET b1 == IF rd.ir[0] # 0 THEN [b EXCEPT !.ir[0] = 0] ELSE b
  IN IF rd.ir[4] # 0 THEN [b1 EXCEPT !.ir[4] = 0] ELSE b1

\* The alarm coil (line 180).
new_alarm_plc1(rd) ==
  IF rd.ir[1] > rd.hr[3] \/ rd.ir[2] > rd.hr[4] THEN 1 ELSE 0

\* The control branch (lines 149-194).
control_plc1(b, rd) ==
  LET pump_voltage == rd.ir[0]
      fan_voltage == rd.ir[4]
      new_pump_voltage == new_pump_voltage_plc1(pump_voltage, rd.ir[2], rd.hr[2])
      new_fan_voltage == new_fan_voltage_plc1(fan_voltage, rd.ir[1], rd.hr[1])
      new_alarm == new_alarm_plc1(rd)
      fan_on == IF new_fan_voltage > 0 THEN 1 ELSE 0
      b1 == IF new_pump_voltage # pump_voltage
              THEN [b EXCEPT !.ir[0] = new_pump_voltage] ELSE b
      b2 == IF new_fan_voltage # fan_voltage
              THEN [b1 EXCEPT !.ir[4] = new_fan_voltage] ELSE b1
      b3 == IF rd.co[1] # new_alarm THEN [b2 EXCEPT !.co[1] = new_alarm] ELSE b2
      b4 == IF rd.co[0] # 1 THEN [b3 EXCEPT !.co[0] = 1] ELSE b3
  IN IF rd.co[2] # fan_on THEN [b4 EXCEPT !.co[2] = fan_on] ELSE b4

\* plc_logic on the live bank b, with rd the registers read at lines 113-115.
plc_logic_plc1_run(b, rd) ==
  IF rd.co[3] = 1 THEN emergency_stop_plc1(b, rd)
  ELSE IF rd.hr[5] = 0 THEN b
  ELSE control_plc1(b, rd)

\* One uninterrupted execution of plc_logic.
plc_logic_plc1(b) == plc_logic_plc1_run(b, b)

\* plc_logic of the variant v.
PlcLogicOf(v, b) == IF v = "A" THEN plc_logic(b) ELSE plc_logic_plc1(b)

-----------------------------------------------------------------------------
(* Snapshot Load and Save of the Controller. *)

\* A faulty update_modbus_memory, kept to show that the properties below tell the two apart:
\* the coils of the snapshot are applied too.
update_modbus_memory_mut(b, data) ==
  [b EXCEPT
     !.co = Override(b.co, data.co),
     !.di = Override(b.di, [k \in DOMAIN data.di |-> IF data.di[k] # 0 THEN 1 ELSE 0]),
     !.ir = Override(b.ir, data.ir)]

\* modbus-1-plc.py update_modbus_memory: only discrete inputs and input
\* registers of the snapshot are applied to the bank.
update_modbus_memory(b, data) ==
  [b EXCEPT
     !.di = Override(b.di, [k \in DOMAIN data.di |-> IF data.di[k] # 0 THEN 1 ELSE 0]),
     !.ir = Override(b.ir, data.ir)]

\* modbus-1-plc.py write_tmp_file_filtered: the labelled slots, Mode excepted.
filtered_result(b) ==
  [co |-> b.co, di |-> b.di, hr |-> Restrict(b.hr, (0..7) \ {4}), ir |-> b.ir]

\* modbus-1-plc.py main, lines 219-230: the bank the loop starts with.
initial_bank(data) ==
  LET mode == Get(data.hr, 4, 0)
      b == update_modbus_memory(ZeroBank("A"), data)
  IN [b EXCEPT !.hr[4] = mode]

\* modbus-plc1.py update_modbus_memory: every slot of every space is set from
\* the snapshot, a missing key giving 0.
update_modbus_memory_plc1(b, data) ==
  [co |-> [i \in DOMAIN b.co |-> Get(data.co, i, 0)],
   di |-> [i \in DOMAIN b.di |-> Get(data.di, i, 0)],
   hr |-> [i \in DOMAIN b.hr |-> Get(data.hr, i, 0)],
   ir |-> [i \in DOMAIN b.ir |-> Get(data.ir, i, 0)]]

\* modbus-plc1.py read_modbus_memory: the whole bank.
read_modbus_memory(b) == [co |-> b.co, di |-> b.di, hr |-> b.hr, ir |-> b.ir]

-----------------------------------------------------------------------------
(* modbus-1-field.py: one tick of run_reality_loop (lines 57-117). *)

\* d[i] := v, adding the key i when it is missing.
Put(f, i, v) == [j \in (DOMAIN f) \cup {i} |-> IF j = i THEN v ELSE f[j]]

\* Lines 75-79: int(clamp(int(max(raw_throughput, 20)), 20, 1000) * 0.6).
new_throughput_of(pump_voltage, temperature) ==
  LET max_throughput == clamp(pump_voltage, 0, 1000)
      exact == (max_throughput * (170 - temperature)) \div 100
      short == IF max_throughput \in RawThroughputShort(temperature) THEN 1 ELSE 0
      raw_int == IF temperature <= 70 THEN Max(max_throughput, 20)
                 ELSE IF temperature >= 170 THEN 20
                 ELSE Max(exact - short, 20)
  IN (clamp(raw_int, 20, 1000) * 3) \div 5

\* Lines 82-84: pressure_delta in units of 1/(5*Scale).
pressure_delta3(new_throughput, throughput) ==
  (Lookup(PressureInputTab, new_throughput) - Lookup(PressureLossTab, throughput)) * 3

\* A faulty new_pressure_of, kept to show that the properties below tell the two apart:
\* the result is not limited to 600..1400.
new_pressure_mut(new_throughput, throughput, pressure, valve_open, relief_threshold, bleed_rate) ==
  LET d3 == pressure_delta3(new_throughput, throughput)
      bleed == IF valve_open # 0 /\ pressure > relief_threshold THEN bleed_rate ELSE 0
      base == pressure - bleed
      lo == base + FloorDiv(d3, 5 * Scale)
      hi == base + CeilDiv(d3, 5 * Scale)
  IN IF lo >= 0 THEN lo ELSE hi

\* A faulty new_pressure_of, kept to show that the properties below tell the two apart:
\* an open valve bleeds whatever the pressure is.
new_pressure_bleed_mut(new_throughput, throughput, pressure, valve_open, relief_threshold, bleed_rate) ==
  LET d3 == pressure_delta3(new_throughput, throughput)
      bleed == IF valve_open # 0 THEN bleed_rate ELSE 0
      base == pressure - bleed
      lo == base + FloorDiv(d3, 5 * Scale)
      hi == base + CeilDiv(d3, 5 * Scale)
  IN clamp(IF lo >= 0 THEN lo ELSE hi, 600, 1400)

\* Lines 85-92: the new pressure.
new_pressure_of(new_throughput, throughput, pressure, valve_open, relief_threshold, bleed_rate) ==
  LET d3 == pressure_delta3(new_throughput, throughput)
      bleed == IF valve_open # 0 /\ pressure > relief_threshold THEN bleed_rate ELSE 0
      base == pressure - bleed
      lo == base + FloorDiv(d3, 5 * Scale)
      hi == base + CeilDiv(d3, 5 * Scale)
  IN clamp(IF lo >= 0 THEN lo ELSE hi, 600, 1400)

\* Line 96: ((pressure - 800) / 400) ** 2 * 20 = (pressure - 800)^2 / 8000, as
\* its whole part and its fraction in 10^-6 units.  With x = 8000 * u + v the
\* square is formed without leaving 32 bits.
heat_from_pressure(pressure) ==
  IF pressure > 800
    THEN LET x == pressure - 800
             u == x \div 8000
             v == x % 8000
         IN [whole |-> 8000 * u * u + 2 * u * v + (v * v) \div 8000,
             micro |-> ((v * v) % 8000) * 125]
    ELSE [whole |-> 0, micro |-> 0]

\* Lines 95-101: the floor of temp_delta, the terms summed exactly to twelve
\* decimal places (whole part, 10^-6 and 10^-12 units) and multiplied by
\* AGGRESSIVENESS = 3/5.  Where the double-precision temp_delta lies within
\* 10^-10 below an integer that the exact value reaches, the sum
\* temperature + temp_delta of line 103 rounds to that integer, so that
\* int(temperature + temp_delta + noise) is as the exact floor gives it.
temp_delta_floor(pump_voltage, pressure, heater_power, heater_on, fan_rpm, fan_on) ==
  LET from_pressure == heat_from_pressure(pressure)
      micro == Lookup(HeatFromPumpTab, pump_voltage) + from_pressure.micro
               + (IF heater_on # 0 THEN Lookup(HeatFromHeaterTab, heater_power) ELSE 0)
               - (IF fan_on # 0 THEN Lookup(CoolingFromFanTab, fan_rpm) ELSE 0)
      pico == Lookup(HeatFromPumpPico, pump_voltage)
              + (IF heater_on # 0 THEN Lookup(HeatFromHeaterPico, heater_power) ELSE 0)
              - (IF fan_on # 0 THEN Lookup(CoolingFromFanPico, fan_rpm) ELSE 0)
      q == (3 * from_pressure.whole) \div 5
      r == (3 * from_pressure.whole) % 5
  IN q + FloorDiv(r * Scale + 3 * micro + FloorDiv(3 * pico, Scale), 5 * Scale)

\* The outcomes of int(temperature + temp_delta + noise) over the noise of
\* random.uniform(-1, 1): the floor of temp_delta shifted by -1, 0 or +1.
NoiseSteps == {-1, 0, 1}

\* A faulty new_temperature_of, kept to show that the properties below tell the two apart:
\* the result is limited from below only.
new_temperature_mut(temperature, delta_floor, k) ==
  Max(30, temperature + delta_floor + k)

\* Lines 102-103: the new temperature for the noise step k.
new_temperature_of(temperature, delta_floor, k) ==
  clamp(temperature + delta_floor + k, 30, 150)

\* A faulty reality_tick, kept to show that the properties below tell the two apart:
\* every sensor slot gets a change record, whether its value changed or not.
reality_tick_mut(data, k) ==
  LET ir == data.ir
      hr == data.hr
      coils == data.co
      pump_voltage == Get(ir, 0, 0)
      temperature == Get(ir, 1, 55)
      pressure == Get(ir, 2, 900)
      throughput == Get(ir, 3, 100)
      fan_rpm == Get(ir, 4, 0)
      heater_power == Get(ir, 5, 0)
      fan_on == Get(coils, 2, 0)
      heater_on == Get(coils, 3, 0)
      valve_open == Get(coils, 5, 0)
      relief_threshold == Get(hr, 6, 1300)
      bleed_rate == Get(hr, 7, 15)
      new_throughput == new_throughput_of(pump_voltage, temperature)
      new_pressure == new_pressure_of(new_throughput, throughput, pressure, valve_open,
                                      relief_threshold, bleed_rate)
      new_temperature ==
        new_temperature_of(temperature,
          temp_delta_floor(pump_voltage, pressure, heater_power, heater_on, fan_rpm, fan_on),
          k)
      ir1 == IF new_throughput # throughput THEN Put(ir, 3, new_throughput) ELSE ir
      ir2 == IF new_pressure # pressure THEN Put(ir1, 2, new_pressure) ELSE ir1
      ir3 == IF new_temperature # temperature THEN Put(ir2, 1, new_temperature) ELSE ir2
      changes == {1, 2, 3}
  IN [data |-> [data EXCEPT !.ir = ir3],
      changes |-> changes,
      updates |-> (changes # {})]

\* Lines 57-117: the data after the tick and whether `updates` is non-empty.
reality_tick(data, k) ==
  LET ir == data.ir
      hr == data.hr
      coils == data.co
      pump_voltage == Get(ir, 0, 0)
      temperature == Get(ir, 1, 55)
      pressure == Get(ir, 2, 900)
      throughput == Get(ir, 3, 100)
      fan_rpm == Get(ir, 4, 0)
      heater_power == Get(ir, 5, 0)
      fan_on == Get(coils, 2, 0)
      heater_on == Get(coils, 3, 0)
      valve_open == Get(coils, 5, 0)
      relief_threshold == Get(hr, 6, 1300)
      bleed_rate == Get(hr, 7, 15)
      new_throughput == new_throughput_of(pump_voltage, temperature)
      new_pressure == new_pressure_of(new_throughput, throughput, pressure, valve_open,
                                      relief_threshold, bleed_rate)
      new_temperature ==
        new_temperature_of(temperature,
          temp_delta_floor(pump_voltage, pressure, heater_power, heater_on, fan_rpm, fan_on),
          k)
      ir1 == IF new_throughput # throughput THEN Put(ir, 3, new_throughput) ELSE ir
      ir2 == IF new_pressure # pressure THEN Put(ir1, 2, new_pressure) ELSE ir1
      ir3 == IF new_temperature # temperature THEN Put(ir2, 1, new_temperature) ELSE ir2
      changes == (IF new_throughput # throughput THEN {3} ELSE {})
                 \cup (IF new_pressure # pressure THEN {2} ELSE {})
                 \cup (IF new_temperature # temperature THEN {1} ELSE {})
  IN [data |-> [data EXCEPT !.ir = ir3],
      changes |-> changes,
      updates |-> (changes # {})]

-----------------------------------------------------------------------------
(* reality-loop.py: apply_reality_model (lines 37-77). *)

apply_reality_model(data) ==
  LET ir == data.ir
      co == data.co
      pump_on == Get(co, 0, 0)
      fan_on == Get(co, 2, 0)
      pump_voltage == Get(ir, 0, 0)
      fan_voltage == Get(ir, 4, 0)
      temperature == Get(ir, 1, 55)
      pressure == Get(ir, 2, 900)
      throughput == Get(ir, 3, 100)
      new_throughput == Max(5, Min(200, (2 * Abs(pump_voltage)) \div 5))
      new_pressure ==
        IF pump_on # 0 /\ pump_voltage > 0
          THEN Min(1600, pressure + (3 * pump_voltage) \div 100)
        ELSE IF pump_on # 0 /\ pump_voltage < 0
          THEN Max(200, pressure + TruncDiv(4 * pump_voltage, 100))
        ELSE Max(200, pressure - 5)
      new_temp ==
        IF fan_on # 0
          THEN Max(10, temperature - (TruncDiv(fan_voltage, new_throughput + 5) + 1))
          ELSE Min(130, temperature + (new_pressure \div 500 + 1))
      ir1 == IF new_throughput # throughput THEN Put(ir, 3, new_throughput) ELSE ir
      ir2 == IF new_pressure # pressure THEN Put(ir1, 2, new_pressure) ELSE ir1
      ir3 == IF new_temp # temperature THEN Put(ir2, 1, new_temp) ELSE ir2
  IN [data EXCEPT !.ir = ir3]

-----------------------------------------------------------------------------
(* The snapshot file and the two processes that share it. *)

\* A complete file holding `data`.
Complete(data) == [state |-> "ok", data |-> data]
\* The file right after open(path, "w"): truncated to length zero.
Truncated == [state |-> "empty", data |-> NoData]
\* Two writers' buffers laid over each other: not parseable.
Garbled == [state |-> "garbled", data |-> NoData]
\* No file at the path.
Absent == [state |-> "absent", data |-> NoData]

\* The snapshots JSON_FILE may hold when variant A starts (register map of
\* modbus-1-plc.py LABELS; values as in the defaults of modbus-plc1.py).
SrcSnapshotsA ==
  { [co |-> [i \in 0..5 |-> IF i \in {0, 2} THEN 1 ELSE 0],
     di |-> [i \in 0..3 |-> IF i = 3 THEN 0 ELSE 1],
     ir |-> (0 :> 250 @@ 1 :> t @@ 2 :> 900 @@ 3 :> 100 @@ 4 :> 250 @@ 5 :> 0),
     hr |-> (0 :> 55 @@ 1 :> 900 @@ 2 :> 75 @@ 3 :> 1100 @@ 4 :> m @@ 5 :> 0
             @@ 6 :> 1300 @@ 7 :> 15)] : t \in {55, 80}, m \in {1, 2} }

\* modbus-plc1.py INITIAL_SENSOR_JSON (lines 245-272), with the mode and the
\* temperature varied.
SrcSnapshotsB ==
  { [co |-> (0 :> 1 @@ 1 :> 0 @@ 2 :> 1 @@ 3 :> 0),
     di |-> (0 :> 1 @@ 1 :> 1 @@ 2 :> 1),
     ir |-> (0 :> 250 @@ 1 :> t @@ 2 :> 900 @@ 3 :> 100 @@ 4 :> 250),
     hr |-> (0 :> 250 @@ 1 :> 55 @@ 2 :> 900 @@ 3 :> 75 @@ 4 :> 1100 @@ 5 :> m)]
    : t \in {55, 80}, m \in {0, 1} }

\* The values an operator sends to the Pump Delta register: +20 and -20 as
\* pump_delta & 0xFFFF (modbus-1-HMI.py lines 133-139).
DeltaWrites == {20, 65516}

PlcIdle == [pc |-> "wait", n |-> 0, fd |-> "none", result |-> NoData,
            rd |-> ZeroBank("A"), lastLoad |-> "none", boots |-> 0]
EnvIdle == [pc |-> "start", n |-> 0, fd |-> "none", data |-> NoData, src |-> "ok",
            updates |-> FALSE, lastLoad |-> "none", changes |-> {}]

\* The operator console and the adversarial writer before they are started.
NoRequest == "unsent"
\* The dictionary of read_modbus before its first request has returned.
NoPart == [coils |-> EmptyFn, discrete_inputs |-> EmptyFn, input_registers |-> EmptyFn, holding_registers |-> EmptyFn]
HmiIdle == [pc |-> "off", n |-> 0, data |-> NoData, part |-> NoPart, out |-> NoRequest, live |-> TRUE, pump_delta |-> 0, signed |-> 0, orig |-> 0, path |-> "none"]
AtkIdle == [pc |-> "off", i |-> 0, num |-> 0, kind |-> "coil", addr |-> 0, value |-> 0, toggle |-> FALSE, random |-> FALSE, last_val |-> FALSE, success_count |-> 0, sent |-> 0, accepted |-> 0, refused |-> 0]

\* Variant A before either process has started.  JSON_FILE holds a snapshot
\* (env.data until the first Load) or does not parse (env.src = "bad");
\* TMP_FILE does not exist yet or is the copy of JSON_FILE that an earlier run
\* of the Environment left behind.
InitA ==
  /\ variant = "A"
  /\ bank = ZeroBank("A")
  /\ plc = PlcIdle
  /\ \/ \E src \in SrcSnapshotsA :
          /\ env = [EnvIdle EXCEPT !.data = src]
          /\ file \in {Absent, Complete(src)}
     \/ /\ env = [EnvIdle EXCEPT !.src = "bad"]
        /\ file = Absent
  /\ gw = 0
  /\ hmi = HmiIdle
  /\ atk = AtkIdle

\* Variant B before modbus-plc1.py has entered main.  reality-loop.py has no
\* start-up step and waits for nothing: it stands at the read of line 83,
\* and TMP_FILE does not exist yet or is the file an earlier run of the
\* deployment left behind.
InitB ==
  /\ variant = "B"
  /\ bank = ZeroBank("B")
  /\ plc = [PlcIdle EXCEPT !.rd = ZeroBank("B")]
  /\ file \in {Absent} \cup {Complete(left) : left \in SrcSnapshotsB}
  /\ env = [EnvIdle EXCEPT !.pc = "load"]
  /\ gw = 0
  /\ hmi = HmiIdle
  /\ atk = AtkIdle

Init == InitA \/ InitB

-----------------------------------------------------------------------------
(* modbus-1-field.py: run_reality_loop. *)

\* A faulty open_tmp, kept to show that the properties below tell the two apart:
\* the temporary path is the shared path, which open truncates.
open_in_place(f) == Truncated

\* write_atomic line 21: open(tmp_path, "w") creates or truncates the temporary
\* file filepath + ".tmp"; the shared file f is left as it is.
open_tmp(f) == f

\* Lines 41-45: the file does not exist and is created from JSON_FILE
\* (write_atomic up to the open of the temporary file).
EnvStart ==
  /\ variant = "A" /\ env.pc = "start"
  /\ file.state = "absent" /\ env.src = "ok"
  /\ file' = open_tmp(file)
  /\ env' = [env EXCEPT !.pc = "dump"]
  /\ UNCHANGED <<variant, bank, plc, gw, hmi, atk>>

\* Line 41 finds the file: lines 42-45 are skipped and the loop starts on the
\* file as it is.
EnvStartExisting ==
  /\ variant = "A" /\ env.pc = "start"
  /\ file.state # "absent"
  /\ env' = [env EXCEPT !.pc = "load"]
  /\ UNCHANGED <<variant, bank, file, plc, gw, hmi, atk>>

\* Line 42 stands in no try block: a JSON_FILE that is missing or does not
\* parse ends the process.
EnvStartFail ==
  /\ variant = "A" /\ env.pc = "start"
  /\ file.state = "absent" /\ env.src = "bad"
  /\ env' = [env EXCEPT !.pc = "crashed"]
  /\ UNCHANGED <<variant, bank, file, plc, gw, hmi, atk>>

\* write_atomic line 22: json.dump into the temporary file, and its close.
EnvDump ==
  /\ variant = "A" /\ env.pc = "dump"
  /\ env' = [env EXCEPT !.pc = "replace"]
  /\ UNCHANGED <<variant, bank, file, plc, gw, hmi, atk>>

\* write_atomic line 23: os.replace(tmp_path, filepath).  A descriptor the
\* Controller holds open on the replaced file now refers to an unlinked file.
EnvReplace ==
  /\ variant = "A" /\ env.pc = "replace"
  /\ file' = Complete(env.data)
  /\ plc' = IF plc.fd = "open" THEN [plc EXCEPT !.fd = "orphan"] ELSE plc
  /\ env' = [env EXCEPT !.pc = "load"]
  /\ UNCHANGED <<variant, bank, gw, hmi, atk>>

\* A faulty EnvLoadFail, kept to show that the properties below tell the two apart:
\* the read stands outside the try block and the exception ends the process.
EnvLoadFail_mut ==
  /\ variant = "A" /\ env.pc = "load" /\ env.n < MaxEnvTicks
  /\ file.state # "ok"
  /\ env' = [env EXCEPT !.lastLoad = "error", !.n = env.n + 1, !.pc = "crashed"]
  /\ UNCHANGED <<variant, bank, file, plc, gw, hmi, atk>>

\* Lines 50-55: the read fails; the tick is skipped.
EnvLoadFail ==
  /\ variant = "A" /\ env.pc = "load" /\ env.n < MaxEnvTicks
  /\ file.state # "ok"
  /\ env' = [env EXCEPT !.lastLoad = "error", !.n = env.n + 1]
  /\ UNCHANGED <<variant, bank, file, plc, gw, hmi, atk>>

\* Lines 50-119 up to the open of the temporary file: the file is read, the
\* tick computed and, when `updates` is non-empty, write_atomic entered.
EnvTick ==
  /\ variant = "A" /\ env.pc = "load" /\ env.n < MaxEnvTicks
  /\ file.state = "ok"
  /\ \E k \in NoiseSteps :
       LET r == reality_tick(file.data, k)
       IN /\ env' = [env EXCEPT !.lastLoad = "ok", !.data = r.data,
                                !.updates = r.updates, !.changes = r.changes,
                                !.pc = IF r.updates THEN "dump" ELSE "load",
                                !.n = env.n + 1]
          /\ file' = IF r.updates THEN open_tmp(file) ELSE file
  /\ UNCHANGED <<variant, bank, plc, gw, hmi, atk>>

-----------------------------------------------------------------------------
(* reality-loop.py: main (lines 79-90). *)

\* Lines 83-84 raise: the error is logged and the loop sleeps.
EnvLoadFailB ==
  /\ variant = "B" /\ env.pc = "load" /\ env.n < MaxEnvTicks
  /\ file.state # "ok"
  /\ env' = [env EXCEPT !.lastLoad = "error", !.n = env.n + 1]
  /\ UNCHANGED <<variant, bank, file, plc, gw, hmi, atk>>

\* Lines 83-84: the file is read and the model applied.
EnvTickB ==
  /\ variant = "B" /\ env.pc = "load" /\ env.n < MaxEnvTicks
  /\ file.state = "ok"
  /\ env' = [env EXCEPT !.lastLoad = "ok", !.data = apply_reality_model(file.data),
                        !.updates = (apply_reality_model(file.data) # file.data),
                        !.pc = "open", !.n = env.n + 1]
  /\ UNCHANGED <<variant, bank, file, plc, gw, hmi, atk>>

\* write_clean_json line 33: open(filepath, 'w') truncates the shared file.
EnvOpenB ==
  /\ variant = "B" /\ env.pc = "open"
  /\ file' = Truncated
  /\ env' = [env EXCEPT !.pc = "close", !.fd = "open"]
  /\ UNCHANGED <<variant, bank, plc, gw, hmi, atk>>

\* The file after a writer's buffered text is flushed at offset 0 on close:
\* over text another writer flushed since this writer's open, the result is
\* this writer's text, followed by the tail of the other text when that was
\* longer.
flushed(fd, data) ==
  IF fd = "overlaid" THEN {Complete(data), Garbled} ELSE {Complete(data)}

\* write_clean_json lines 34-35 and the close of the with-block.
EnvCloseB ==
  /\ variant = "B" /\ env.pc = "close"
  /\ file' \in flushed(env.fd, env.data)
  /\ plc' = IF plc.fd = "open" THEN [plc EXCEPT !.fd = "overlaid"] ELSE plc
  /\ env' = [env EXCEPT !.pc = "load", !.fd = "none"]
  /\ UNCHANGED <<variant, bank, gw, hmi, atk>>

-----------------------------------------------------------------------------
(* modbus-1-plc.py: main. *)

\* Lines 216-217: the wait ends once os.path.exists(TMP_FILE) holds.
PlcWaitFile ==
  /\ variant = "A" /\ plc.pc = "wait"
  /\ file.state # "absent"
  /\ plc' = [plc EXCEPT !.pc = "start"]
  /\ UNCHANGED <<variant, bank, file, env, gw, hmi, atk>>

\* Lines 219-234: the file is read (outside any try), the bank built from it
\* and the server thread started.  A file that has gone since the wait ended
\* or that does not parse ends the process.
PlcStart ==
  /\ variant = "A" /\ plc.pc = "start"
  /\ IF file.state = "ok"
       THEN /\ bank' = initial_bank(file.data)
            /\ plc' = [plc EXCEPT !.pc = "load", !.lastLoad = "ok"]
       ELSE /\ bank' = bank
            /\ plc' = [plc EXCEPT !.pc = "crashed", !.lastLoad = "error"]
  /\ UNCHANGED <<variant, file, env, gw, hmi, atk>>

\* Lines 238-246: the snapshot is read into the bank; a failure is logged and
\* the iteration goes on.  plc_logic follows in every PLC_LOOP_MULTIPLIER-th
\* iteration, otherwise the loop sleeps.
PlcLoad ==
  /\ variant = "A" /\ plc.pc = "load" /\ plc.n < MaxPlcIters
  /\ bank' = IF file.state = "ok" THEN update_modbus_memory(bank, file.data) ELSE bank
  /\ plc' = [plc EXCEPT !.n = plc.n + 1,
                        !.lastLoad = IF file.state = "ok" THEN "ok" ELSE "error",
                        !.pc = IF (plc.n + 1) % PLC_LOOP_MULTIPLIER = 0
                                 THEN "logic" ELSE "load"]
  /\ UNCHANGED <<variant, file, env, gw, hmi, atk>>

\* plc_logic lines 117-125, entered at line 248: ir, hr and co are read into
\* locals.  The server thread started at line 232 serves remote writes
\* beside every step of the loop.
PlcReadRegisters ==
  /\ variant = "A" /\ plc.pc = "logic"
  /\ plc' = [plc EXCEPT !.pc = "running", !.rd = bank]
  /\ UNCHANGED <<variant, bank, file, env, gw, hmi, atk>>

\* plc_logic lines 127-212: the branches act on the locals read before and
\* write to the live bank.
PlcRunLogic ==
  /\ variant = "A" /\ plc.pc = "running"
  /\ bank' = plc_logic_run(bank, plc.rd)
  /\ plc' = [plc EXCEPT !.pc = "collect"]
  /\ UNCHANGED <<variant, file, env, gw, hmi, atk>>

\* write_tmp_file_filtered lines 56-63, entered at line 249: the dictionary
\* to save is read from the bank.
PlcCollect ==
  /\ variant = "A" /\ plc.pc = "collect"
  /\ plc' = [plc EXCEPT !.pc = "open", !.result = filtered_result(bank)]
  /\ UNCHANGED <<variant, bank, file, env, gw, hmi, atk>>

-----------------------------------------------------------------------------
(* modbus-plc1.py: main (lines 199-227). *)

\* Lines 200-206: JSON_FILE, created from INITIAL_SENSOR_JSON when it is
\* missing, is read outside any try into raw (plc.result).  A JSON_FILE that
\* does not parse ends the process.
PlcStartB ==
  /\ variant = "B" /\ plc.pc = "wait"
  /\ \/ \E raw \in SrcSnapshotsB : plc' = [plc EXCEPT !.pc = "seed", !.result = raw]
     \/ plc' = [plc EXCEPT !.pc = "crashed"]
  /\ UNCHANGED <<variant, bank, file, env, gw, hmi, atk>>

\* write_tmp_file line 65, called at line 207: open(TMP_FILE, "w") truncates
\* the shared file, whatever the Environment is doing with it.
PlcSeedOpenB ==
  /\ variant = "B" /\ plc.pc = "seed"
  /\ file' = Truncated
  /\ plc' = [plc EXCEPT !.pc = "seeded", !.fd = "open"]
  /\ UNCHANGED <<variant, bank, env, gw, hmi, atk>>

\* write_tmp_file line 66 and the close of its with-block, then lines
\* 210-227: the bank is built with every slot set from raw and the server
\* thread started.  The bank is local to the process until then.
PlcSeedCloseB ==
  /\ variant = "B" /\ plc.pc = "seeded"
  /\ file' \in flushed(plc.fd, plc.result)
  /\ env' = IF env.fd = "open" THEN [env EXCEPT !.fd = "overlaid"] ELSE env
  /\ bank' = update_modbus_memory_plc1(ZeroBank("B"), plc.result)
  /\ plc' = [plc EXCEPT !.pc = "load", !.fd = "none", !.result = NoData]
  /\ UNCHANGED <<variant, gw, hmi, atk>>

-----------------------------------------------------------------------------
(* modbus-plc1.py: main (lines 229-242). *)

\* An iteration that is no multiple of PLC_LOOP_MULTIPLIER only sleeps.
PlcSkipB ==
  /\ variant = "B" /\ plc.pc = "load" /\ plc.n < MaxPlcIters
  /\ (plc.n + 1) % PLC_LOOP_MULTIPLIER # 0
  /\ plc' = [plc EXCEPT !.n = plc.n + 1]
  /\ UNCHANGED <<variant, bank, file, env, gw, hmi, atk>>

\* Lines 236-237: the snapshot is read (outside any try) and every slot of
\* the bank set from it.  A file that does not parse ends the process.
PlcLoadB ==
  /\ variant = "B" /\ plc.pc = "load" /\ plc.n < MaxPlcIters
  /\ (plc.n + 1) % PLC_LOOP_MULTIPLIER = 0
  /\ IF file.state = "ok"
       THEN /\ bank' = update_modbus_memory_plc1(bank, file.data)
            /\ plc' = [plc EXCEPT !.n = plc.n + 1, !.lastLoad = "ok", !.pc = "logic"]
       ELSE /\ bank' = bank
            /\ plc' = [plc EXCEPT !.n = plc.n + 1, !.lastLoad = "error",
                                  !.pc = "crashed"]
  /\ UNCHANGED <<variant, file, env, gw, hmi, atk>>

\* plc_logic lines 113-115, entered at line 238: ir, hr and co are read into
\* locals.
PlcReadRegistersB ==
  /\ variant = "B" /\ plc.pc = "logic"
  /\ plc' = [plc EXCEPT !.pc = "running", !.rd = bank]
  /\ UNCHANGED <<variant, bank, file, env, gw, hmi, atk>>

\* plc_logic lines 116-197: the branches act on the locals read before and
\* write to the live bank.
PlcRunLogicB ==
  /\ variant = "B" /\ plc.pc = "running"
  /\ bank' = plc_logic_plc1_run(bank, plc.rd)
  /\ plc' = [plc EXCEPT !.pc = "collect"]
  /\ UNCHANGED <<variant, file, env, gw, hmi, atk>>

\* Line 239: read_modbus_memory reads the dictionary to save from the bank.
PlcCollectB ==
  /\ variant = "B" /\ plc.pc = "collect"
  /\ plc' = [plc EXCEPT !.pc = "open", !.result = read_modbus_memory(bank)]
  /\ UNCHANGED <<variant, bank, file, env, gw, hmi, atk>>

-----------------------------------------------------------------------------
(* The Controller's Save: open(TMP_FILE, "w") and json.dump, in both variants *)
(* (modbus-1-plc.py lines 64-65, modbus-plc1.py lines 65-66).                 *)

\* open(TMP_FILE, "w"): the shared file is truncated in place.
PlcSaveOpen ==
  /\ plc.pc = "open"
  /\ file' = Truncated
  /\ plc' = [plc EXCEPT !.pc = "close", !.fd = "open"]
  /\ UNCHANGED <<variant, bank, env, gw, hmi, atk>>

\* json.dump and the close of the with-block: the text reaches the file the
\* descriptor refers to, which is no longer the shared path once the
\* Environment has replaced it.
PlcSaveClose ==
  /\ plc.pc = "close"
  /\ IF plc.fd = "orphan"
       THEN file' = file
       ELSE file' \in flushed(plc.fd, plc.result)
  /\ env' = IF env.fd = "open" THEN [env EXCEPT !.fd = "overlaid"] ELSE env
  /\ plc' = [plc EXCEPT !.pc = "load", !.fd = "none"]
  /\ UNCHANGED <<variant, bank, gw, hmi, atk>>

-----------------------------------------------------------------------------
(* Writes served by the Modbus server thread of the Controller process. *)

GwUp ==
  plc.pc \in {"load", "logic", "running", "collect", "open", "close"} /\ gw < MaxGwWrites

\* Mode write {0, 1, 2} to the Mode holding register.
GwWriteMode ==
  /\ GwUp
  /\ \E m \in {0, 1, 2} : bank' = [bank EXCEPT !.hr[ModeReg(variant)] = m]
  /\ gw' = gw + 1
  /\ UNCHANGED <<variant, file, plc, env, hmi, atk>>

\* modbus-1-HMI.py lines 137-139: write_register(5, pump_delta & 0xFFFF).
GwWriteDelta ==
  /\ GwUp /\ variant = "A"
  /\ \E d \in DeltaWrites : bank' = [bank EXCEPT !.hr[5] = d]
  /\ gw' = gw + 1
  /\ UNCHANGED <<variant, file, plc, env, hmi, atk>>

\* modbus-1-attack.py write_one: write_coil on the Emergency Stop coil.
GwWriteEStop ==
  /\ GwUp
  /\ \E v \in {0, 1} : bank' = [bank EXCEPT !.co[EStopCoil(variant)] = v]
  /\ gw' = gw + 1
  /\ UNCHANGED <<variant, file, plc, env, hmi, atk>>

-----------------------------------------------------------------------------

Next ==
  \/ EnvStart \/ EnvStartExisting \/ EnvStartFail
  \/ EnvDump \/ EnvReplace \/ EnvLoadFail \/ EnvTick
  \/ EnvLoadFailB \/ EnvTickB \/ EnvOpenB \/ EnvCloseB
  \/ PlcWaitFile \/ PlcStart \/ PlcLoad \/ PlcReadRegisters \/ PlcRunLogic \/ PlcCollect
  \/ PlcStartB \/ PlcSeedOpenB \/ PlcSeedCloseB
  \/ PlcSkipB \/ PlcLoadB \/ PlcReadRegistersB \/ PlcRunLogicB \/ PlcCollectB
  \/ PlcSaveOpen \/ PlcSaveClose
  \/ GwWriteMode \/ GwWriteDelta \/ GwWriteEStop

Spec == Init /\ [][Next]_vars

-----------------------------------------------------------------------------
(* One execution of plc_logic on a bank drawn from sample register          *)
(* contents: the specification under which the claims about plc_logic as a  *)
(* function are checked.                                                     *)

\* Register values at and around the limits the logic tests.
RegSamples == {0, 1, 250, 1000, MaxReg}
TempSamples == {0, 52, 53, 54, 55, 56, 57, 58, 80, 100, MaxReg}
PumpSamples == {0, 1, 19, 500, 980, 981, 1000, 1001, 32768, MaxReg}
DeltaSamples == {0, 1, 20, 1000, 32767, 32768, 65516, MaxReg}
ThroughputSamples == {0, 19, 20, 100, MaxReg}
PressureSamples == {0, 900, 1100, 1101, 1300, 1301, 1350, MaxReg}

\* The bank of variant A with the example register contents.
BaseA ==
  [co |-> [i \in 0..5 |-> 0],
   di |-> [i \in 0..3 |-> IF i = 3 THEN 0 ELSE 1],
   ir |-> (0 :> 250 @@ 1 :> 55 @@ 2 :> 900 @@ 3 :> 100 @@ 4 :> 250 @@ 5 :> 0),
   hr |-> (0 :> 55 @@ 1 :> 900 @@ 2 :> 75 @@ 3 :> 1100 @@ 4 :> 1 @@ 5 :> 0
           @@ 6 :> 1300 @@ 7 :> 15)]

\* The bank of variant B with the contents of INITIAL_SENSOR_JSON.
BaseB ==
  [co |-> (0 :> 1 @@ 1 :> 0 @@ 2 :> 1 @@ 3 :> 0),
   di |-> (0 :> 1 @@ 1 :> 1 @@ 2 :> 1),
   ir |-> (0 :> 250 @@ 1 :> 55 @@ 2 :> 900 @@ 3 :> 100 @@ 4 :> 250),
   hr |-> (0 :> 250 @@ 1 :> 55 @@ 2 :> 900 @@ 3 :> 75 @@ 4 :> 1100 @@ 5 :> 1)]

\* Emergency stop and idle cycles: every mode, actuator registers and coils.
BanksStopA ==
  { [BaseA EXCEPT !.co[4] = e, !.hr[4] = m, !.ir[0] = pv, !.ir[4] = rpm, !.ir[5] = hp,
                  !.ir[1] = t, !.co[3] = h, !.hr[5] = d]
    : e \in {0, 1}, m \in {0, 1, 2}, pv \in RegSamples, rpm \in RegSamples,
      hp \in {0, 120, MaxReg}, t \in {55, 80}, h \in {0, 1}, d \in {0, 20} }

\* Manual cycles: pump voltages and deltas.
BanksManualA ==
  { [BaseA EXCEPT !.hr[4] = 2, !.ir[0] = pv, !.hr[5] = d, !.ir[1] = t]
    : pv \in PumpSamples, d \in DeltaSamples, t \in {55, 80} }

\* Auto cycles: the pump setpoint over a dense sweep of temperatures.
BanksAutoPumpA ==
  { [BaseA EXCEPT !.hr[4] = 1, !.ir[1] = t, !.ir[3] = th, !.ir[0] = pv]
    : t \in (0..TempSweep) \cup {32767, MaxReg}, th \in ThroughputSamples,
      pv \in {0, 200, 250, 1000, MaxReg} }

\* Auto cycles: fan and heater around the target temperature.
BanksAutoFanA ==
  { [BaseA EXCEPT !.hr[4] = 1, !.ir[1] = t, !.hr[0] = tt, !.ir[4] = rpm, !.ir[5] = hp,
                  !.co[3] = h, !.co[2] = f]
    : t \in TempSamples, tt \in {0, 55, MaxReg}, rpm \in {0, 40, 500, 960, 1000, MaxReg},
      hp \in {0, 120}, h \in {0, 1}, f \in {0, 1} }

\* Running cycles: the alarm thresholds and the relief valve.
BanksAlarmA ==
  { [BaseA EXCEPT !.hr[4] = m, !.ir[1] = t, !.hr[2] = at, !.ir[2] = p, !.hr[3] = ap,
                  !.hr[6] = rt, !.hr[7] = br, !.co[1] = a, !.co[5] = rv]
    : rv \in {0, 1}, m \in {1, 2, 3}, t \in {74, 75, 76, 80}, at \in {0, 75, MaxReg},
      p \in PressureSamples, ap \in {0, 1100, MaxReg}, rt \in {0, 1300},
      br \in {0, 15, MaxReg}, a \in {0, 1} }

LogicBanksA ==
  BanksStopA \cup BanksManualA \cup BanksAutoPumpA \cup BanksAutoFanA \cup BanksAlarmA

\* Variant B: emergency stop and idle cycles.
BanksStopB ==
  { [BaseB EXCEPT !.co[3] = e, !.hr[5] = m, !.ir[0] = pv, !.ir[4] = fv, !.ir[2] = p,
                  !.ir[1] = t]
    : e \in {0, 1}, m \in {0, 1, 2}, pv \in RegSamples, fv \in RegSamples,
      p \in {900, 950}, t \in {55, 80} }

\* Variant B: the stepwise pump and fan adjustment and the alarm.
BanksControlB ==
  { [BaseB EXCEPT !.hr[5] = m, !.ir[0] = pv, !.ir[4] = fv, !.ir[2] = p, !.ir[1] = t,
                  !.hr[3] = at, !.hr[4] = ap, !.co[1] = a]
    : m \in {1, 2}, pv \in {0, 20, 990, 1000}, fv \in {0, 7, 995, 1000},
      p \in {0, 889, 894, 900, 906, 911, 1101, MaxReg},
      t \in {0, 51, 53, 55, 57, 59, 76, MaxReg}, at \in {75, MaxReg},
      ap \in {1100, MaxReg}, a \in {0, 1} }

LogicBanksB == BanksStopB \cup BanksControlB

\* A snapshot at rest for modbus-1-field: pump off, throughput int(20 * 0.6),
\* pressure and temperature at their floors with the fan at full speed.
SteadySnapshotsA ==
  { [co |-> (0 :> 0 @@ 1 :> 0 @@ 2 :> 1 @@ 3 :> 0 @@ 4 :> 0 @@ 5 :> 0),
     di |-> [i \in 0..3 |-> IF i = 3 THEN 0 ELSE 1],
     ir |-> (0 :> 0 @@ 1 :> 30 @@ 2 :> 600 @@ 3 :> 12 @@ 4 :> 1000 @@ 5 :> 0),
     hr |-> (0 :> 55 @@ 1 :> 900 @@ 2 :> 75 @@ 3 :> 1100 @@ 5 :> 0
             @@ 6 :> 1300 @@ 7 :> 15)] }

\* Snapshots the Environment of variant A may load: actuator slots inside the
\* ranges the Controller writes, sensor slots and thresholds at their limits.
SnapshotSamplesA ==
  { [co |-> (0 :> 1 @@ 1 :> 0 @@ 2 :> on @@ 3 :> on @@ 4 :> 0 @@ 5 :> vo),
     di |-> [i \in 0..3 |-> IF i = 3 THEN 0 ELSE 1],
     ir |-> (0 :> pv @@ 1 :> t @@ 2 :> p @@ 3 :> th @@ 4 :> rpm @@ 5 :> hp),
     hr |-> (0 :> 55 @@ 1 :> 900 @@ 2 :> 75 @@ 3 :> 1100 @@ 5 :> 0
             @@ 6 :> rt @@ 7 :> br)]
    : on \in {0, 1}, vo \in {0, 1}, pv \in {0, 250, 1000}, t \in {0, 55, 120, MaxReg},
      p \in {0, 900, 1350, MaxReg}, th \in {0, 100}, rpm \in {0, 1000}, hp \in {0, 300},
      rt \in {0, 1300}, br \in {15, MaxReg} }
  \cup SteadySnapshotsA

\* Snapshots the Environment of variant B may load.
SnapshotSamplesB ==
  { [co |-> (0 :> po @@ 1 :> 0 @@ 2 :> fo @@ 3 :> 0),
     di |-> (0 :> 1 @@ 1 :> 1 @@ 2 :> 1),
     ir |-> (0 :> pv @@ 1 :> t @@ 2 :> p @@ 3 :> th @@ 4 :> fv),
     hr |-> (0 :> 250 @@ 1 :> 55 @@ 2 :> 900 @@ 3 :> 75 @@ 4 :> 1100 @@ 5 :> 1)]
    : po \in {0, 1}, fo \in {0, 1}, pv \in {0, 250, MaxReg}, t \in {0, 10, 55, 130, MaxReg},
      p \in {0, 200, 900, 1600, MaxReg}, th \in {5, 100}, fv \in {0, 250, MaxReg} }

\* The Controller about to run plc_logic on a sample bank.
InitPlcLogic ==
  /\ variant \in {"A", "B"}
  /\ bank \in (IF variant = "A" THEN LogicBanksA ELSE LogicBanksB)
  /\ file = Absent
  /\ plc = [PlcIdle EXCEPT !.pc = "logic", !.rd = ZeroBank(variant)]
  /\ env = EnvIdle
  /\ gw = 0
  /\ hmi = HmiIdle
  /\ atk = AtkIdle

\* The Environment about to load a sample snapshot.
InitEnvStep ==
  /\ variant \in {"A", "B"}
  /\ bank = ZeroBank(variant)
  /\ \E d \in (IF variant = "A" THEN SnapshotSamplesA ELSE SnapshotSamplesB) :
       file = Complete(d)
  /\ plc = [PlcIdle EXCEPT !.rd = ZeroBank(variant)]
  /\ env = [EnvIdle EXCEPT !.pc = "load"]
  /\ gw = 0
  /\ hmi = HmiIdle
  /\ atk = AtkIdle

InitLogic == InitPlcLogic \/ InitEnvStep

NextLogic ==
  \/ PlcReadRegisters \/ PlcRunLogic \/ PlcCollect
  \/ PlcReadRegistersB \/ PlcRunLogicB \/ PlcCollectB
  \/ EnvTick \/ EnvTickB

SpecLogic == InitLogic /\ [][NextLogic]_vars


-----------------------------------------------------------------------------
(* The snapshot file damaged from outside the two processes: the case the   *)
(* handlers of modbus-1-plc.py lines 240-244, modbus-1-field.py lines 50-55 *)
(* and reality-loop.py lines 88-89 are written for.                         *)

\* The file is removed, emptied or left malformed.
FileFault ==
  /\ file.state = "ok"
  /\ plc.fd = "none" /\ env.fd = "none"
  /\ file' \in {Absent, Truncated, Garbled}
  /\ UNCHANGED <<variant, bank, plc, env, gw, hmi, atk>>

NextFault == Next \/ FileFault

SpecFault == Init /\ [][NextFault]_vars

-----------------------------------------------------------------------------
(* The Controller of modbus-1-plc ended between two iterations and started  *)
(* again: main is entered anew (lines 214-230), the bank of the old process *)
(* is gone and the iteration count starts at 0.  plc.rd and plc.result keep *)
(* what the last cycle of the old process read and saved.                   *)

PlcTerminate ==
  /\ variant = "A" /\ plc.pc = "load"
  /\ plc.boots < MaxRestarts
  /\ plc' = [plc EXCEPT !.pc = "wait", !.n = 0, !.lastLoad = "none",
                        !.boots = plc.boots + 1]
  /\ UNCHANGED <<variant, bank, file, env, gw, hmi, atk>>

NextRestart == Next \/ PlcTerminate

SpecRestart == Init /\ [][NextRestart]_vars

-----------------------------------------------------------------------------
(* The deployment with the Controller process scheduled: whenever a step of *)
(* main stays possible it is taken in the end.  Nothing is assumed of the   *)
(* Environment or of the gateway's clients, which may never run.            *)

ControllerStep ==
  \/ PlcWaitFile \/ PlcStart \/ PlcLoad \/ PlcReadRegisters \/ PlcRunLogic \/ PlcCollect
  \/ PlcStartB \/ PlcSeedOpenB \/ PlcSeedCloseB
  \/ PlcSkipB \/ PlcLoadB \/ PlcReadRegistersB \/ PlcRunLogicB \/ PlcCollectB
  \/ PlcSaveOpen \/ PlcSaveClose

SpecFair == Init /\ [][Next]_vars /\ WF_vars(ControllerStep)
-----------------------------------------------------------------------------
(* Properties of the Emergency Stop, the snapshot file and the control     *)
(* branches.  In a state with plc.pc = "collect" the Controller has run     *)
(* plc_logic and not yet read the bank to save it: plc.rd holds the         *)
(* registers the cycle read at its start and, when no remote write was      *)
(* served since, bank is the bank the cycle left.                           *)

\* The cycle that has just run started with the Emergency Stop coil set.
StoppedCycle == plc.pc = "collect" /\ plc.rd.co[EStopCoil(variant)] = 1
\* The cycle that has just run started with the Emergency Stop coil clear.
ClearCycle == plc.pc = "collect" /\ plc.rd.co[EStopCoil(variant)] # 1

\* C1: one execution of plc_logic that starts with the Emergency Stop coil at
\* 1 leaves the pump-voltage and fan registers at 0 and, in modbus-1-plc, the
\* heater-power register too, whatever the Mode and the registers were.
C1_EStopForcesOutputsOff ==
  StoppedCycle =>
    /\ bank.ir[0] = 0
    /\ bank.ir[4] = 0
    /\ (variant = "A" => bank.ir[5] = 0)

\* An Auto cycle of modbus-1-plc under Emergency Stop that found all three
\* outputs at their maximum.
C1_Witness ==
  /\ StoppedCycle /\ variant = "A"
  /\ plc.rd.hr[4] = 1
  /\ plc.rd.ir[0] = MaxReg /\ plc.rd.ir[4] = MaxReg /\ plc.rd.ir[5] = MaxReg
  /\ bank.ir[0] = 0 /\ bank.ir[4] = 0 /\ bank.ir[5] = 0

\* C2: once the Emergency Stop coil is 1 in the bank it goes back to 0 only by
\* a write through the gateway: no step of the Controller (load, plc_logic,
\* save) and no step of the Environment clears it, in either variant.
C2_EStopClearedOnlyByGateway ==
  [][ (bank.co[EStopCoil(variant)] = 1 /\ bank'.co[EStopCoil(variant)] # 1)
        => gw' # gw ]_vars

\* A step in which the Controller reads the snapshot file (at its start in
\* modbus-1-plc, at a Load of its loop) or the Environment does.
ReadsFile ==
  \/ variant = "A" /\ plc.pc = "start" /\ plc'.pc # "start"
  \/ /\ plc.pc = "load" /\ plc'.n = plc.n + 1
     /\ variant = "B" => (plc.n + 1) % PLC_LOOP_MULTIPLIER = 0
  \/ env.pc = "load" /\ env'.n = env.n + 1

\* C3: no Load ever finds the snapshot file empty or cut short: whoever the
\* writer is, every read of the file by the Controller or by the Environment
\* meets a complete version of it (or, before any writer has run, no file).
C3_NoLoadSeesPartialFile ==
  [][ ReadsFile => file.state \in {"ok", "absent"} ]_vars

\* C4: in modbus-1-plc with modbus-1-field, no Load of the Controller fails,
\* however the Environment's write_atomic is interleaved with it.
C4_AtomicSaveNeverBreaksLoad ==
  variant = "A" => plc.lastLoad # "error"

\* The Controller has loaded what the Environment's first tick saved
\* (throughput int(250 * 0.6)), and its last Load succeeded while the second
\* write_atomic stands between json.dump and os.replace.
C4_Witness ==
  /\ variant = "A"
  /\ plc.lastLoad = "ok" /\ plc.n >= 1
  /\ bank.ir[3] = 150
  /\ env.n = 2 /\ env.pc = "replace"

\* The Pump Delta register read as a signed 16-bit quantity.
SignedDelta(v) == IF v >= 32768 THEN v - 65536 ELSE v

\* C5: in Manual mode without Emergency Stop, a cycle that finds a signed
\* Pump Delta D # 0 leaves pump voltage = p + D limited to 0..1000 and Pump
\* Delta = 0; a cycle that finds D = 0 leaves both as they were.
C5_ManualDeltaApplied ==
  (ClearCycle /\ variant = "A" /\ plc.rd.hr[4] = 2) =>
    LET D == SignedDelta(plc.rd.hr[5])
        p == plc.rd.ir[0]
    IN IF D # 0
         THEN /\ bank.ir[0] = (IF p + D < 0 THEN 0
                               ELSE IF p + D > 1000 THEN 1000 ELSE p + D)
              /\ bank.hr[5] = 0
         ELSE /\ bank.ir[0] = p
              /\ bank.hr[5] = plc.rd.hr[5]

\* A Manual cycle that found pump voltage 1 and Pump Delta -20.
C5_Witness ==
  /\ ClearCycle /\ variant = "A" /\ plc.rd.hr[4] = 2
  /\ plc.rd.ir[0] = 1 /\ plc.rd.hr[5] = 65516
  /\ bank.ir[0] = 0 /\ bank.hr[5] = 0

\* The actuator slots of a bank: pump voltage, fan, heater power (variant A
\* only) and the coils.
Actuators(v, b) ==
  <<b.ir[0], b.ir[4], IF v = "A" THEN b.ir[5] ELSE 0, b.co>>

\* A step of the Controller's loop that belongs to an iteration in which
\* plc_logic runs.
LogicIterationStep ==
  /\ plc.pc \in {"load", "logic", "running", "collect", "open", "close"}
  /\ (plc'.pc # plc.pc \/ plc'.n # plc.n)
  /\ (plc.pc = "load" => (plc.n + 1) % PLC_LOOP_MULTIPLIER = 0)

\* The bank is in Idle mode with the Emergency Stop clear.
IdleAndClear(b) ==
  b.hr[ModeReg(variant)] = 0 /\ b.co[EStopCoil(variant)] # 1

\* C6: while Mode is Idle and the Emergency Stop is clear, no step of a
\* Controller loop iteration (load, plc_logic, save) changes an actuator
\* register or a coil of the bank.  The writes of plc_logic count when the
\* registers it read at its start were Idle and clear too.
C6_IdleCycleKeepsActuators ==
  [][ (/\ LogicIterationStep
       /\ IdleAndClear(bank) /\ IdleAndClear(bank')
       /\ (plc.pc = "running" => IdleAndClear(plc.rd)))
        => Actuators(variant, bank') = Actuators(variant, bank) ]_vars

\* C7: after an Auto cycle of modbus-1-plc without Emergency Stop the pump
\* voltage is between 200 and 1000.
C7_AutoPumpVoltageRange ==
  (ClearCycle /\ variant = "A" /\ plc.rd.hr[4] = 1) =>
    (bank.ir[0] >= 200 /\ bank.ir[0] <= 1000)

\* An Auto cycle with flow at 171 degrees, where 100 / (1 - penalty) is
\* negative, that raised the pump voltage from 0 to the floor.
C7_Witness ==
  /\ ClearCycle /\ variant = "A" /\ plc.rd.hr[4] = 1
  /\ plc.rd.ir[1] = 171 /\ plc.rd.ir[3] >= 20 /\ plc.rd.ir[0] = 0
  /\ bank.ir[0] = 200

\* Every coil and discrete input of d is 0 or 1 and every register a 16-bit
\* unsigned value.
WithinTypeBounds(d) ==
  /\ \A i \in DOMAIN d.co : d.co[i] \in {0, 1}
  /\ \A i \in DOMAIN d.di : d.di[i] \in {0, 1}
  /\ \A i \in DOMAIN d.ir : d.ir[i] >= 0 /\ d.ir[i] <= MaxReg
  /\ \A i \in DOMAIN d.hr : d.hr[i] >= 0 /\ d.hr[i] <= MaxReg

\* C8: whatever plc_logic or a step of the Environment writes, to the bank or
\* to a snapshot, is within its slot's type bounds: coils 0 or 1, registers
\* 0..65535, a result outside being clamped before the write.
C8_WritesWithinTypeBounds ==
  /\ WithinTypeBounds(bank)
  /\ WithinTypeBounds(plc.result)
  /\ WithinTypeBounds(env.data)
  /\ WithinTypeBounds(file.data)

\* A tick of modbus-1-field with the relief valve open and a bleed rate of
\* 65535: pressure 900 less the bleed is far below zero and 600 is written.
C8_Witness ==
  /\ variant = "A" /\ env.pc = "dump" /\ file.state = "ok"
  /\ file.data.co[5] = 1 /\ file.data.hr[6] = 0 /\ file.data.hr[7] = MaxReg
  /\ file.data.ir[2] = 900
  /\ env.data.ir[2] = 600

\* C9: after a cycle that is neither Idle nor stopped, the alarm coil is 1
\* exactly when the temperature read at the start of the cycle exceeds the
\* alarm temperature or the pressure read exceeds the alarm pressure.
C9_AlarmIffOverThreshold ==
  (ClearCycle /\ plc.rd.hr[ModeReg(variant)] # 0) =>
    LET temp == plc.rd.ir[1]
        press == plc.rd.ir[2]
        alarm_temp == IF variant = "A" THEN plc.rd.hr[2] ELSE plc.rd.hr[3]
        alarm_press == IF variant = "A" THEN plc.rd.hr[3] ELSE plc.rd.hr[4]
    IN bank.co[1] = 1 <=> (temp > alarm_temp \/ press > alarm_press)

\* Temperature 80 over alarm temperature 75 with pressure 900 under alarm
\* pressure 1100: the alarm coil goes from 0 to 1.
C9_Witness ==
  /\ ClearCycle /\ variant = "A" /\ plc.rd.hr[4] # 0
  /\ plc.rd.ir[1] = 80 /\ plc.rd.hr[2] = 75
  /\ plc.rd.ir[2] = 900 /\ plc.rd.hr[3] = 1100
  /\ plc.rd.co[1] = 0 /\ bank.co[1] = 1

\* The Environment replaces (variant A) or reopens (variant B) a complete
\* snapshot file with what it holds in env.data.
EnvSaves ==
  /\ file.state = "ok"
  /\ \/ variant = "A" /\ env.pc = "replace" /\ env'.pc # "replace"
     \/ variant = "B" /\ env.pc = "open" /\ env'.pc # "open"

\* The Controller reopens a complete snapshot file to write plc.result.
PlcSaves == file.state = "ok" /\ plc.pc = "open" /\ plc'.pc = "close"

\* C10: a Save is last-writer-wins slot by slot: the Environment's Save puts
\* no older value in place of the pump voltage, fan, heater power or coils the
\* file holds from the Controller, and the Controller's Save puts no older
\* value in place of the temperature or throughput the file holds from the
\* Environment.
C10_SaveKeepsOthersSlots ==
  [][ /\ EnvSaves => Actuators(variant, env.data) = Actuators(variant, file.data)
      /\ PlcSaves => /\ plc.result.ir[1] = file.data.ir[1]
                     /\ plc.result.ir[3] = file.data.ir[3] ]_vars

-----------------------------------------------------------------------------
(* Properties of the loops under read failures, of Save and Load, of the    *)
(* Controller's start and of the relief valve in the plant model.           *)

\* C11: in either variant, an iteration of the Controller's loop that cannot
\* read or parse the snapshot file does not end the loop: the Controller goes
\* on to plc_logic or to its next iteration.
C11_LoadFailureKeepsLoop ==
  [][ (plc.pc = "load" /\ file.state # "ok" /\ plc'.n # plc.n)
        => plc'.pc \in {"load", "logic"} ]_vars

\* C12: in modbus-1-plc, an iteration whose Load failed is skipped: plc_logic
\* does not run and the file is not saved in it, so after a failed Load the
\* Controller is next found at the Load of a following iteration.
C12_FailedLoadSkipsCycle ==
  (variant = "A" /\ plc.n >= 1 /\ plc.lastLoad = "error") => plc.pc = "load"

\* C13: in the Environment loop of either variant, a tick whose Load fails
\* computes no sensor slot and writes no file, and leaves the loop at the
\* Load of its next tick.
C13_EnvLoadFailureSkipsTick ==
  [][ (env.pc = "load" /\ file.state # "ok" /\ env'.n # env.n)
        => /\ env'.pc = "load"
           /\ env'.data = env.data
           /\ file' = file ]_vars

\* The Environment of reality-loop.py, running on the file of an earlier
\* run, ticked once; then it found the file emptied by the open of the
\* starting Controller (modbus-plc1.py line 207), skipped the tick and
\* stands at its next Load with what it held before.
C13_Witness ==
  /\ variant = "B" /\ env.n >= 2
  /\ env.lastLoad = "error" /\ env.pc = "load" /\ env.data # NoData
  /\ file.state = "empty" /\ plc.pc = "seeded"

\* The Environment of modbus-1-field found the file emptied by the
\* Controller's open, skipped the tick and stands at its next Load.
C13_SkippedTickA ==
  /\ variant = "A" /\ env.n >= 1
  /\ env.lastLoad = "error" /\ env.pc = "load"
  /\ file.state = "empty" /\ plc.pc = "close"

\* Every slot the snapshot d holds has d's value in the bank b.
SlotsAgree(d, b) ==
  /\ \A i \in DOMAIN d.co : b.co[i] = d.co[i]
  /\ \A i \in DOMAIN d.di : b.di[i] = d.di[i]
  /\ \A i \in DOMAIN d.ir : b.ir[i] = d.ir[i]
  /\ \A i \in DOMAIN d.hr : b.hr[i] = d.hr[i]

\* C14: what is saved is what is loaded.  The file write_atomic leaves holds
\* the data given to it and the Environment's read returns the file's slots;
\* and when the Controller of modbus-1-plc loads, into the bank of a new
\* process, the very file its write_tmp_file_filtered saved, every slot of
\* that file has the saved value in the bank.
C14_SaveLoadRoundTrip ==
  [][ /\ (variant = "A" /\ env.pc = "replace" /\ env'.pc = "load")
           => file' = Complete(env.data)
      /\ (variant = "A" /\ env.pc = "load" /\ env'.n # env.n /\ file.state = "ok")
           => /\ env'.data.co = file.data.co /\ env'.data.di = file.data.di
              /\ env'.data.hr = file.data.hr
              /\ \A i \in {0, 4, 5} : env'.data.ir[i] = file.data.ir[i]
      /\ (variant = "A" /\ plc.pc = "start" /\ plc'.pc = "load"
            /\ file = Complete(plc.result))
           => SlotsAgree(file.data, bank') ]_vars

\* C15: in a tick of modbus-1-field a sensor slot has a change record only if
\* its new value differs from the value loaded; a tick without a change has an
\* empty change set and does not enter write_atomic.
C15_DeltaOnlyWrites ==
  (variant = "A" /\ env.lastLoad = "ok" /\ file.state = "ok") =>
    /\ env.changes \subseteq {1, 2, 3}
    /\ \A i \in env.changes : env.data.ir[i] # file.data.ir[i]
    /\ (\A i \in {1, 2, 3} : env.data.ir[i] = file.data.ir[i])
         => (env.changes = {} /\ ~env.updates /\ env.pc = "load")

\* A tick on the snapshot at rest: nothing changed and no write was started.
C15_Witness ==
  /\ variant = "A" /\ env.lastLoad = "ok" /\ env.n = 1
  /\ file.state = "ok" /\ file.data.ir[2] = 600 /\ file.data.ir[3] = 12
  /\ env.data = file.data
  /\ env.changes = {} /\ env.pc = "load"

\* C16: a Controller cycle in which plc_logic changed no register (an Idle
\* cycle, or one whose outputs equal what the bank held) does not rewrite the
\* snapshot file.
C16_NoDeltaNoSave ==
  [][ (plc.pc = "open" /\ plc'.pc = "close"
         /\ PlcLogicOf(variant, plc.rd) = plc.rd)
        => file' = file ]_vars

\* C17: when the Controller of modbus-1-plc enters its loop, every slot the
\* snapshot file holds (coils, discrete inputs, input registers, holding
\* registers) has the file's value in the bank.
C17_BankSeededFromSnapshot ==
  [][ (variant = "A" /\ plc.pc = "start" /\ plc'.pc = "load")
        => SlotsAgree(file.data, bank') ]_vars

\* C18: a Controller of modbus-1-plc that ended between two cycles and was
\* started again has, when it enters its loop, the Mode its bank held in the
\* last cycle it completed before it ended.
C18_RestartRecoversMode ==
  [][ (variant = "A" /\ plc.boots >= 1 /\ plc.result # NoData
         /\ plc.pc = "start" /\ plc'.pc = "load")
        => bank'.hr[4] = plc.rd.hr[4] ]_vars

\* C19: the Controller does not wait on the Environment: scheduled, it leaves
\* its start-up and enters its loop even when the Environment never runs and
\* never creates the snapshot file.
C19_ControllerReachesLoop == <>(plc.pc \notin {"wait", "start"})

\* int(pressure + pressure_delta): the ordinary result of a tick of
\* modbus-1-field before any bleed and before the clamp.
OrdinaryPressure(new_throughput, throughput, pressure) ==
  LET d3 == pressure_delta3(new_throughput, throughput)
      lo == pressure + FloorDiv(d3, 5 * Scale)
      hi == pressure + CeilDiv(d3, 5 * Scale)
  IN IF lo >= 0 THEN lo ELSE hi

\* C20: in a tick of modbus-1-field with the relief valve coil open and the
\* loaded pressure above the relief threshold, the new pressure is the
\* ordinary result less bleed_rate, limited to 600..1400; with the valve
\* closed or the pressure not above the threshold it is the ordinary result,
\* limited to 600..1400.
C20_ReliefBleed ==
  (variant = "A" /\ env.lastLoad = "ok" /\ file.state = "ok") =>
    LET d == file.data
        ordinary == OrdinaryPressure(new_throughput_of(d.ir[0], d.ir[1]), d.ir[3], d.ir[2])
        bleeds == d.co[5] # 0 /\ d.ir[2] > d.hr[6]
        expected == IF bleeds THEN ordinary - d.hr[7] ELSE ordinary
    IN env.data.ir[2] = Max(600, Min(1400, expected))

\* Pressure 1350 over the threshold 1300 with the valve open and bleed rate
\* 15: the ordinary result 1356 becomes 1341.
C20_Witness ==
  /\ variant = "A" /\ env.lastLoad = "ok" /\ file.state = "ok"
  /\ file.data.co[5] = 1 /\ file.data.hr[6] = 1300 /\ file.data.hr[7] = 15
  /\ file.data.ir[0] = 250 /\ file.data.ir[1] = 55
  /\ file.data.ir[2] = 1350 /\ file.data.ir[3] = 100
  /\ env.data.ir[2] = 1341
-----------------------------------------------------------------------------
(* The clients of the gateway: the operator console (modbus-1-HMI.py for   *)
(* variant A, modbus-hmi1.py for variant B) and the adversarial writer     *)
(* (modbus-1-attack.py).  What the Modbus client library does with one     *)
(* request is an input of the model: it hands back a response, a response  *)
(* whose isError() is true, nothing, or it raises.                         *)

\* Remote operator-console polls explored.
MaxHmiPolls == 1
\* Presses of "+" or "-" between two sends.
MaxDeltaPresses == 1
\* Largest --num of the adversarial writer.
MaxAtkNum == 3

\* The count of every remote read: read_coils(0, 10) and so on.
ReadCount == 10
\* The step of one "+" or "-" command.
DeltaStep == 20

\* The placeholder "unknown" and a value taken from a response.
Unknown == [tag |-> "unknown"]
Value(v) == [tag |-> "value", val |-> v]

\* What the client library hands back for one request: a response, a
\* response whose isError() is true, None or an object without isError
\* ("none"), or an exception.
ReadOutcomes == {"ok", "error", "none", "raise"}
WriteOutcomes == {"ok", "error", "none", "raise"}

\* resp.bits / resp.registers of a successful read of `section` from address
\* 0: the labelled slots of the bank, zeros in the rest of the data block.
Response(section) == [i \in 0..(ReadCount - 1) |-> Value(Get(section, i, 0))]

\* A faulty read_regs, kept to show that the properties below tell the two apart:
\* a failed read is shown as zeros.
read_regs_mut(outcome, resp, count) ==
  IF outcome = "ok" THEN [i \in 0..(count - 1) |-> resp[i]]
  ELSE [i \in 0..(count - 1) |-> Value(0)]

\* read_bits(resp, count): resp.bits[:count] if resp and not resp.isError()
\* else ["unknown"] * count.
read_bits(outcome, resp, count) ==
  IF outcome = "ok" THEN [i \in 0..(count - 1) |-> resp[i]]
  ELSE [i \in 0..(count - 1) |-> Unknown]

\* read_regs(resp, count): the same on resp.registers.
read_regs(outcome, resp, count) ==
  IF outcome = "ok" THEN [i \in 0..(count - 1) |-> resp[i]]
  ELSE [i \in 0..(count - 1) |-> Unknown]

\* unknown_snapshot(): every space ["unknown"] * 10.
unknown_snapshot ==
  [coils |-> [i \in 0..(ReadCount - 1) |-> Unknown],
   discrete_inputs |-> [i \in 0..(ReadCount - 1) |-> Unknown],
   input_registers |-> [i \in 0..(ReadCount - 1) |-> Unknown],
   holding_registers |-> [i \in 0..(ReadCount - 1) |-> Unknown]]

\* pump_delta & 0xFFFF.
Mask16(d) == d % (MaxReg + 1)

\* A faulty new_mode_of, kept to show that the properties below tell the two apart:
\* the toggle goes from Manual on to Idle.
new_mode_cycle_mut(data) ==
  IF data.holding_registers[4] = Value(1) THEN 2
  ELSE IF data.holding_registers[4] = Value(2) THEN 0 ELSE 1

\* new_mode = 2 if mode == 1 else 1, with mode = data["holding_registers"][4].
new_mode_of(data) == IF data.holding_registers[4] = Value(1) THEN 2 ELSE 1

\* The gateway serves requests once the Controller has started its server
\* and for as long as its process lives.
ServerUp == plc.pc \in {"load", "logic", "running", "collect", "open", "close"}

\* Only a served request comes back with a response that is no error.
Served(outcomes) == IF ServerUp THEN outcomes ELSE outcomes \ {"ok"}

\* The console after read_modbus has returned `snapshot`, its last request
\* having come to o (hmi.out) and hmi.live telling whether the Controller
\* process was alive when that request was sent: hmi_loop goes on to
\* its prompt (modbus-1-HMI.py lines 124-127), the main loop of modbus-hmi1.py
\* to its next poll (lines 133-137).
after_read(h, snapshot, o) ==
  [h EXCEPT !.data = snapshot, !.part = NoPart, !.out = o, !.live = ServerUp, !.n = h.n + 1,
            !.pc = IF variant = "A" THEN "select" ELSE "read"]

\* One request of read_modbus that is not the last: the except clause of
\* lines 62-63 returns unknown_snapshot() when it raises, otherwise the
\* converted response is kept for the dictionary and the next request follows.
after_request(h, part, o, next) ==
  IF o = "raise" THEN after_read(h, unknown_snapshot, o)
  ELSE [h EXCEPT !.part = part, !.out = o, !.live = ServerUp, !.pc = next]

\* modbus-hmi1.py main line 131: client.connect() succeeds, which takes a
\* listening server, and read_modbus is entered.
HmiConnectB ==
  /\ hmi.pc = "read" /\ hmi.n < MaxHmiPolls /\ variant = "B"
  /\ ServerUp
  /\ hmi' = [hmi EXCEPT !.pc = "read_co", !.out = NoRequest]
  /\ UNCHANGED <<variant, bank, file, plc, env, gw, atk>>

\* read_modbus line 57 (modbus-hmi1.py line 75): client.read_coils(0, 10),
\* the first request of the call of hmi_loop line 123 or of main line 132.
\* The Controller may have ended since the connection was made.
HmiReadCoils ==
  /\ \/ variant = "A" /\ hmi.pc = "read" /\ hmi.n < MaxHmiPolls
     \/ variant = "B" /\ hmi.pc = "read_co"
  /\ \E o \in Served(ReadOutcomes) :
       hmi' = after_request(hmi, [NoPart EXCEPT !.coils = read_bits(o, Response(bank.co), ReadCount)],
                            o, "read_di")
  /\ UNCHANGED <<variant, bank, file, plc, env, gw, atk>>

\* read_modbus line 58: client.read_discrete_inputs(0, 10).
HmiReadDiscreteInputs ==
  /\ hmi.pc = "read_di"
  /\ \E o \in Served(ReadOutcomes) :
       hmi' = after_request(hmi, [hmi.part EXCEPT !.discrete_inputs = read_bits(o, Response(bank.di), ReadCount)],
                            o, "read_ir")
  /\ UNCHANGED <<variant, bank, file, plc, env, gw, atk>>

\* read_modbus line 59: client.read_input_registers(0, 10).
HmiReadInputRegisters ==
  /\ hmi.pc = "read_ir"
  /\ \E o \in Served(ReadOutcomes) :
       hmi' = after_request(hmi, [hmi.part EXCEPT !.input_registers = read_regs(o, Response(bank.ir), ReadCount)],
                            o, "read_hr")
  /\ UNCHANGED <<variant, bank, file, plc, env, gw, atk>>

\* read_modbus line 60: client.read_holding_registers(0, 10), after which
\* the dictionary is returned.
HmiReadHoldingRegisters ==
  /\ hmi.pc = "read_hr"
  /\ \E o \in Served(ReadOutcomes) :
       hmi' = after_read(hmi,
                         IF o = "raise" THEN unknown_snapshot
                         ELSE [hmi.part EXCEPT !.holding_registers = read_regs(o, Response(bank.hr), ReadCount)],
                         o)
  /\ UNCHANGED <<variant, bank, file, plc, env, gw, atk>>

\* modbus-hmi1.py main lines 135-136: client.connect() fails and the
\* console shows unknown_snapshot().
HmiUnconnected ==
  /\ hmi.pc = "read" /\ hmi.n < MaxHmiPolls /\ variant = "B"
  /\ hmi' = [hmi EXCEPT !.data = unknown_snapshot, !.out = NoRequest, !.n = hmi.n + 1]
  /\ UNCHANGED <<variant, bank, file, plc, env, gw, atk>>

\* hmi_loop lines 127-128 and 143-147: the select times out, or the command
\* is empty or not a known one.
HmiPoll ==
  /\ hmi.pc = "select" /\ variant = "A"
  /\ hmi' = [hmi EXCEPT !.pc = "read"]
  /\ UNCHANGED <<variant, bank, file, plc, env, gw, atk>>

\* hmi_loop lines 133-136: "+" and "-".
HmiAdjust ==
  /\ hmi.pc = "select" /\ variant = "A"
  /\ \E step \in {DeltaStep, -DeltaStep} :
       /\ Abs(hmi.pump_delta + step) <= MaxDeltaPresses * DeltaStep
       /\ hmi' = [hmi EXCEPT !.pump_delta = hmi.pump_delta + step, !.pc = "read"]
  /\ UNCHANGED <<variant, bank, file, plc, env, gw, atk>>

\* hmi_loop lines 130-132: "m"; client.write_register(4, new_mode) stands
\* in no try, and main catches KeyboardInterrupt only.  What the call hands
\* back is not looked at.
HmiToggleMode ==
  /\ hmi.pc = "select" /\ variant = "A"
  /\ \E w \in Served(WriteOutcomes) :
       /\ bank' = IF w = "ok" THEN [bank EXCEPT !.hr[4] = new_mode_of(hmi.data)] ELSE bank
       /\ hmi' = [hmi EXCEPT !.pc = IF w = "raise" THEN "crashed" ELSE "read"]
  /\ UNCHANGED <<variant, file, plc, env, gw, atk>>

\* hmi_loop lines 137-142: "s"; client.write_register(5, pump_delta & 0xFFFF),
\* then pump_delta = 0.
HmiSend ==
  /\ hmi.pc = "select" /\ variant = "A"
  /\ \E w \in Served(WriteOutcomes) :
       /\ bank' = IF w = "ok" THEN [bank EXCEPT !.hr[5] = Mask16(hmi.pump_delta)] ELSE bank
       /\ hmi' = IF w = "raise" THEN [hmi EXCEPT !.pc = "crashed"]
                 ELSE [hmi EXCEPT !.pc = "read", !.pump_delta = 0]
  /\ UNCHANGED <<variant, file, plc, env, gw, atk>>

-----------------------------------------------------------------------------
(* modbus-1-attack.py. *)

\* random.randint(0, 32767), at its ends.
RandomSamples == {0, 32767}

\* main lines 158-182: the value of iteration i; the second component is
\* last_val after it.
iteration_values(a) ==
  IF a.kind = "coil" /\ a.toggle
    THEN LET val == IF a.i = 0 THEN a.value # 0 ELSE ~a.last_val
         IN {<<IF val THEN 1 ELSE 0, val>>}
    ELSE IF a.random /\ a.kind = "hr"
      THEN {<<r, a.last_val>> : r \in RandomSamples}
      ELSE {<<a.value, a.last_val>>}

\* The register bank after the server has served write_coil(addr, bool(int(value)))
\* or write_register(addr, int(value)).
served_write(b, kind, addr, value) ==
  IF kind = "coil" THEN [b EXCEPT !.co[addr] = IF value # 0 THEN 1 ELSE 0]
  ELSE [b EXCEPT !.hr[addr] = value]

\* A faulty write_one, kept to show that the properties below tell the two apart:
\* the request stands in no try block and an exception ends the run.
write_one_mut(w) ==
  IF w = "raise" THEN "raised" ELSE IF w \in {"ok", "none"} THEN "ok" ELSE "fail"

\* write_one lines 57-86: (False, resp) for a response whose isError() is
\* true, (False, exc) when the client raises, and (True, resp) for whatever
\* else the call hands back, None and an object without isError included
\* (line 82).
write_one(w) == IF w \in {"ok", "none"} THEN "ok" ELSE "fail"

\* main lines 143-147: client.connect(); sys.exit(3) when it fails.
AtkConnect ==
  /\ atk.pc = "connect"
  /\ \/ ServerUp /\ atk' = [atk EXCEPT !.pc = "loop"]
     \/ atk' = [atk EXCEPT !.pc = "exit3"]
  /\ UNCHANGED <<variant, bank, file, plc, env, gw, hmi>>

\* main lines 156-197: one iteration of the loop over range(args.num).
\* atk.accepted counts the requests the server has served, atk.refused the
\* requests that came back as an error response or raised; success_count is
\* the program's own count.
AtkWrite ==
  /\ atk.pc = "loop" /\ atk.i < atk.num
  /\ \E w \in Served(WriteOutcomes), v \in iteration_values(atk) :
       LET ok == write_one(w)
       IN /\ bank' = IF w = "ok" THEN served_write(bank, atk.kind, atk.addr, v[1]) ELSE bank
          /\ atk' = IF ok = "raised" THEN [atk EXCEPT !.pc = "crashed", !.sent = atk.sent + 1]
                    ELSE [atk EXCEPT !.i = atk.i + 1, !.last_val = v[2],
                                     !.sent = atk.sent + 1,
                                     !.accepted = atk.accepted + (IF w = "ok" THEN 1 ELSE 0),
                                     !.refused = atk.refused + (IF w \in {"error", "raise"} THEN 1 ELSE 0),
                                     !.success_count = atk.success_count + (IF ok = "ok" THEN 1 ELSE 0)]
  /\ UNCHANGED <<variant, file, plc, env, gw, hmi>>

\* main lines 198-201: the loop is over; client.close() and the summary.
AtkDone ==
  /\ atk.pc = "loop" /\ atk.i = atk.num
  /\ atk' = [atk EXCEPT !.pc = "done"]
  /\ UNCHANGED <<variant, bank, file, plc, env, gw, hmi>>

-----------------------------------------------------------------------------
(* The clients beside a running Controller: plc_logic may run, other      *)
(* clients' writes may be served and the Controller process may end        *)
(* between any two requests of a client.  The Controller of modbus-1-plc   *)
(* ends when it is stopped; the Controller of modbus-plc1 ends at line 236 *)
(* on the file that write_clean_json of reality-loop.py (line 33) has      *)
(* opened and not yet written.  The Environment takes no step here.        *)

\* Banks the clients meet.
ClientBanks(v) ==
  IF v = "A" THEN {[BaseA EXCEPT !.hr[4] = m] : m \in {0, 1, 2}}
  ELSE {BaseB}

\* The command lines of the adversarial writer: the Emergency Stop coil set,
\* cleared or toggled, and a holding register written with --value or --random.
AtkConfigs(v) ==
  { [AtkIdle EXCEPT !.pc = "connect", !.num = n, !.kind = "coil", !.addr = EStopCoil(v),
                    !.value = val, !.toggle = t]
    : n \in 0..MaxAtkNum, val \in {0, 1}, t \in BOOLEAN }
  \cup
  { [AtkIdle EXCEPT !.pc = "connect", !.num = n, !.kind = "hr", !.addr = ModeReg(v),
                    !.value = val, !.random = r]
    : n \in 0..MaxAtkNum, val \in {2, 100}, r \in BOOLEAN }

InitClient ==
  /\ variant \in {"A", "B"}
  /\ bank \in ClientBanks(variant)
  /\ file = IF variant = "A" THEN Absent ELSE Truncated
  /\ plc \in {[PlcIdle EXCEPT !.pc = pc, !.rd = ZeroBank(variant)] : pc \in {"load", "logic"}}
  /\ env = IF variant = "A" THEN EnvIdle ELSE [EnvIdle EXCEPT !.pc = "close", !.fd = "open"]
  /\ gw = 0
  /\ \/ hmi = [HmiIdle EXCEPT !.pc = "read"] /\ atk = AtkIdle
     \/ hmi = HmiIdle /\ atk \in AtkConfigs(variant)

NextClient ==
  \/ HmiReadCoils \/ HmiReadDiscreteInputs \/ HmiReadInputRegisters \/ HmiReadHoldingRegisters
  \/ HmiConnectB \/ HmiUnconnected \/ HmiPoll \/ HmiAdjust \/ HmiToggleMode \/ HmiSend
  \/ AtkConnect \/ AtkWrite \/ AtkDone
  \/ PlcReadRegisters \/ PlcRunLogic \/ PlcCollect
  \/ PlcSkipB \/ PlcLoadB \/ PlcReadRegistersB \/ PlcRunLogicB \/ PlcCollectB
  \/ PlcTerminate
  \/ GwWriteMode \/ GwWriteEStop

SpecClient == InitClient /\ [][NextClient]_vars

-----------------------------------------------------------------------------
(* The signed delta on its way through the Pump Delta register: sent by    *)
(* the console as pump_delta & 0xFFFF and read back as int16_signed(val)   *)
(* by plc_logic; and a register value read as int16_signed(val) by the     *)
(* console's display, which only prints it.                                *)

\* The deltas a 16-bit register can carry.
SignedRange == (-((MaxReg + 1) \div 2))..((MaxReg - 1) \div 2)

\* hmi_loop lines 138-139: signed_16bit = pump_delta & 0xFFFF is written
\* to holding register 5.
SendDelta ==
  /\ hmi.pc = "encode"
  /\ bank' = [bank EXCEPT !.hr[5] = Mask16(hmi.pump_delta)]
  /\ hmi' = [hmi EXCEPT !.pc = "decode"]
  /\ UNCHANGED <<variant, file, plc, env, gw, atk>>

\* modbus-1-plc.py line 144: signed_delta = int16_signed(delta), the delta
\* plc_logic reads from holding register 5 (kept in hmi.signed).
DecodeDelta ==
  /\ hmi.pc = "decode"
  /\ hmi' = [hmi EXCEPT !.signed = int16_signed(bank.hr[5]), !.pc = "done"]
  /\ UNCHANGED <<variant, bank, file, plc, env, gw, atk>>

\* print_snapshot line 107 of modbus-1-HMI.py: signed_val = int16_signed(val)
\* of holding register 5 is what the console prints (hmi.signed).  The
\* pump_delta of hmi_loop and the register stay as they are.
ShowDelta ==
  /\ hmi.pc = "show"
  /\ hmi' = [hmi EXCEPT !.signed = int16_signed(bank.hr[5]), !.pc = "done"]
  /\ UNCHANGED <<variant, bank, file, plc, env, gw, atk>>

\* Either a delta about to be sent, or a register value about to be shown.
InitCodec ==
  /\ variant = "A"
  /\ file = Absent
  /\ plc = [PlcIdle EXCEPT !.pc = "load"]
  /\ env = EnvIdle
  /\ gw = 0
  /\ atk = AtkIdle
  /\ \/ /\ bank = [BaseA EXCEPT !.hr[4] = 2]
        /\ \E d \in SignedRange :
             hmi = [HmiIdle EXCEPT !.pc = "encode", !.pump_delta = d, !.orig = d, !.path = "send"]
     \/ \E v \in 0..MaxReg :
          /\ bank = [BaseA EXCEPT !.hr[4] = 2, !.hr[5] = v]
          /\ hmi = [HmiIdle EXCEPT !.pc = "show", !.orig = v, !.path = "show"]

NextCodec == SendDelta \/ DecodeDelta \/ ShowDelta

SpecCodec == InitCodec /\ [][NextCodec]_vars

-----------------------------------------------------------------------------
(* One Manual cycle of modbus-1-plc.py with the gateway's server thread    *)
(* running beside it: plc_logic reads the registers at lines 117-119 and   *)
(* acts on them at lines 127-205, and a remote write may be served in      *)
(* between.                                                                *)

\* The deltas the operator is about to send: one, two and minus one press.
RaceDeltas == {DeltaStep, 2 * DeltaStep, -DeltaStep}

\* The Controller in Manual mode about to run plc_logic, the operator about
\* to send a delta.
InitRace ==
  /\ variant = "A"
  /\ bank \in BanksManualA
  /\ file = Absent
  /\ plc = [PlcIdle EXCEPT !.pc = "logic"]
  /\ env = EnvIdle
  /\ gw = 0
  /\ \E d \in RaceDeltas :
       hmi = [HmiIdle EXCEPT !.pc = "select", !.pump_delta = d, !.orig = d]
  /\ atk = AtkIdle

NextRace == PlcReadRegisters \/ HmiSend \/ PlcRunLogic

SpecRace == InitRace /\ [][NextRace]_vars
-----------------------------------------------------------------------------
(* Properties of the gateway's clients. *)

\* A sequence of ReadCount placeholders.
AllUnknown(s) ==
  /\ DOMAIN s = 0..(ReadCount - 1)
  /\ \A i \in DOMAIN s : s[i].tag = "unknown" /\ s[i] \notin {Value(0), Value(1)}

\* The first ReadCount values the server holds for a register space.
ServerValues(s, section) ==
  /\ DOMAIN s = 0..(ReadCount - 1)
  /\ \A i \in DOMAIN s : s[i].tag = "value" /\ s[i].val = Get(section, i, 0)

\* What one request of read_modbus owes the dictionary for its register
\* space, the server holding `section` when the request is served.
SpaceResult(s, section, outcome) ==
  IF outcome # "ok" THEN AllUnknown(s) ELSE ServerValues(s, section)

\* Every space of the snapshot is all placeholders.
UnknownSnapshot(d) ==
  /\ AllUnknown(d.coils) /\ AllUnknown(d.discrete_inputs)
  /\ AllUnknown(d.input_registers) /\ AllUnknown(d.holding_registers)

\* C21: a remote read of the operator console never raises to its caller
\* and never yields a number on failure.  For each register space
\* read_modbus returns the values of the successful response, or a sequence
\* of "unknown" placeholders (distinct from 0 and 1) when the response is
\* missing or an error; when a read raises, every space is all placeholders.
\* The four requests are separate steps: each is held against the bank at
\* the time it is served, and the spaces read before it stay as they were.
C21_ReadDegradesToUnknown ==
  [][ (hmi.pc \in {"read", "read_co", "read_di", "read_ir", "read_hr"} /\ hmi' # hmi /\ hmi'.out # NoRequest) =>
        LET o == hmi'.out
            d == IF hmi'.pc \in {"read_di", "read_ir", "read_hr"} THEN hmi'.part ELSE hmi'.data
        IN /\ hmi'.pc \in {"read", "read_di", "read_ir", "read_hr", "select"}
           /\ IF o = "raise"
                THEN hmi'.n = hmi.n + 1 /\ UnknownSnapshot(hmi'.data)
                ELSE /\ hmi.pc \in {"read", "read_co"} => SpaceResult(d.coils, bank.co, o)
                     /\ hmi.pc = "read_di" =>
                          /\ SpaceResult(d.discrete_inputs, bank.di, o)
                          /\ d.coils = hmi.part.coils
                     /\ hmi.pc = "read_ir" =>
                          /\ SpaceResult(d.input_registers, bank.ir, o)
                          /\ d.coils = hmi.part.coils
                          /\ d.discrete_inputs = hmi.part.discrete_inputs
                     /\ hmi.pc = "read_hr" =>
                          /\ SpaceResult(d.holding_registers, bank.hr, o)
                          /\ d.coils = hmi.part.coils
                          /\ d.discrete_inputs = hmi.part.discrete_inputs
                          /\ d.input_registers = hmi.part.input_registers ]_vars

\* A poll of main in modbus-hmi1.py overtaken by the end of the Controller:
\* the connection was made and the coils, the discrete inputs and the input
\* registers were served, then the Controller ended at its Load (line 236)
\* and the request for the holding registers, sent to the ended process,
\* came back without a response.
C21_Witness ==
  /\ variant = "B" /\ hmi.pc = "read" /\ hmi.n >= 1
  /\ plc.pc = "crashed" /\ ~hmi.live /\ hmi.out = "none"
  /\ hmi.data.coils[0] = Value(1) /\ hmi.data.coils[3] = Value(0)
  /\ hmi.data.discrete_inputs[2] = Value(1)
  /\ hmi.data.input_registers[0] = Value(250)
  /\ hmi.data.holding_registers[5] = Unknown

\* A poll of hmi_loop in modbus-1-HMI.py torn by an Auto cycle of plc_logic:
\* the coils were read before the cycle switched the pump on, the input
\* registers after it had set the pump voltage to 200, and the read of the
\* holding registers came back as an error.
C21_TornPollA ==
  /\ variant = "A" /\ hmi.pc = "select" /\ hmi.n >= 1
  /\ hmi.out = "error"
  /\ hmi.data.coils[0] = Value(0) /\ bank.co[0] = 1
  /\ hmi.data.discrete_inputs[0] = Value(1)
  /\ hmi.data.input_registers[0] = Value(200)
  /\ hmi.data.holding_registers[4] = Unknown

C23_HmiWriteFailureRecoverable ==
  [][ (variant = "A" /\ hmi.pc = "select" /\ hmi' # hmi) => hmi'.pc = "read" ]_vars

\* C24: the signed encoding round trip.  For every integer d in
\* -32768..32767, int16_signed(d & 0xFFFF) = d, and for every register value
\* v in 0..65535, int16_signed(v) & 0xFFFF = v: the delta the console sends
\* is the delta the Controller decodes.  A delta d that was sent and decoded
\* comes out as d; a register value v that was decoded for display gives v
\* again under & 0xFFFF.
C24_SignedRoundTrip ==
  hmi.pc = "done" =>
    IF hmi.path = "send" THEN hmi.signed = hmi.orig ELSE Mask16(hmi.signed) = hmi.orig

\* The most negative delta, sent as 32768 and decoded again.
C24_Witness ==
  /\ hmi.pc = "done" /\ hmi.path = "send"
  /\ hmi.orig = -32768 /\ bank.hr[5] = 32768 /\ hmi.signed = -32768
-----------------------------------------------------------------------------
(* Properties of single plc_logic cycles and Environment steps. *)

\* The input registers an Emergency Stop cycle may write.
StopOutputs(v) == IF v = "A" THEN {0, 4, 5} ELSE {0, 4}

\* C25: with the Emergency Stop at 1 all other control logic is skipped.  A
\* plc_logic cycle changes no register other than pump voltage, fan
\* RPM/voltage and heater power: every coil, every discrete input, every
\* holding register (Mode and the pending delta among them) and the other
\* input registers keep the values they had before the cycle.
C25_EStopSkipsOtherLogic ==
  StoppedCycle =>
    /\ bank.co = plc.rd.co
    /\ bank.di = plc.rd.di
    /\ bank.hr = plc.rd.hr
    /\ \A i \in DOMAIN bank.ir : i \notin StopOutputs(variant) => bank.ir[i] = plc.rd.ir[i]

\* A Manual cycle of modbus-1-plc under Emergency Stop with a delta pending
\* and the pump coil off: the delta stays, the pump coil stays off.
C25_Witness ==
  /\ StoppedCycle /\ variant = "A"
  /\ plc.rd.hr[4] = 2 /\ plc.rd.hr[5] = 20 /\ plc.rd.co[0] = 0 /\ plc.rd.co[3] = 1
  /\ plc.rd.ir[0] = 250
  /\ bank.hr[5] = 20 /\ bank.co[0] = 0 /\ bank.co[3] = 1 /\ bank.ir[0] = 0

\* An Auto cycle of modbus-1-plc without Emergency Stop has just run.
AutoCycle == ClearCycle /\ variant = "A" /\ plc.rd.hr[4] = 1

\* trunc(2.5 * x) for an integer x, without a division of negative numbers.
Trunc5Halves(x) == IF x >= 0 THEN (5 * x) \div 2 ELSE -((5 * (-x)) \div 2)

\* C26: in every Auto cycle the new fan RPM is clamp(rpm + d, 0, 1000) with
\* d = clamp(trunc(2.5 * (temperature - target_temperature)), -80, 80); so
\* the fan RPM is in 0..1000 after the cycle and, when it was in 0..1000
\* before, it has changed by at most 80.
C26_AutoFanRateLimited ==
  AutoCycle =>
    LET rpm == plc.rd.ir[4]
        raw == Trunc5Halves(plc.rd.ir[1] - plc.rd.hr[0])
        d == IF raw > 80 THEN 80 ELSE IF raw < -80 THEN -80 ELSE raw
        sum == rpm + d
    IN /\ bank.ir[4] = (IF sum < 0 THEN 0 ELSE IF sum > 1000 THEN 1000 ELSE sum)
       /\ bank.ir[4] >= 0 /\ bank.ir[4] <= 1000
       /\ (rpm >= 0 /\ rpm <= 1000) => Abs(bank.ir[4] - rpm) <= 80

\* An Auto cycle one degree below the target: trunc(-2.5) = -2 takes the fan
\* from 500 to 498.
C26_Witness ==
  /\ AutoCycle
  /\ plc.rd.ir[1] = 54 /\ plc.rd.hr[0] = 55 /\ plc.rd.ir[4] = 500
  /\ bank.ir[4] = 498

\* C27: heater hysteresis in every Auto cycle.  Below target - 1 the heating
\* coil becomes 1 and the heater power clamp(4 * (target - temperature), 0,
\* 300); above target + 2 the heating coil and the heater power become 0;
\* from target - 1 to target + 2 both are left as they were.
C27_HeaterHysteresis ==
  AutoCycle =>
    LET temp == plc.rd.ir[1]
        target == plc.rd.hr[0]
        p == 4 * (target - temp)
    IN /\ temp < target - 1 =>
            /\ bank.co[3] = 1
            /\ bank.ir[5] = (IF p < 0 THEN 0 ELSE IF p > 300 THEN 300 ELSE p)
       /\ temp > target + 2 => bank.co[3] = 0 /\ bank.ir[5] = 0
       /\ (temp >= target - 1 /\ temp <= target + 2) =>
            bank.co[3] = plc.rd.co[3] /\ bank.ir[5] = plc.rd.ir[5]

\* An Auto cycle three degrees below the target with the heater off: the
\* coil goes on at power 12.
C27_Witness ==
  /\ AutoCycle
  /\ plc.rd.ir[1] = 52 /\ plc.rd.hr[0] = 55 /\ plc.rd.co[3] = 0 /\ plc.rd.ir[5] = 0
  /\ bank.co[3] = 1 /\ bank.ir[5] = 12

\* C28: after every Auto cycle the relief-valve coil is 1 exactly when the
\* pressure read at the start of the cycle exceeds relief_threshold.  When
\* the valve is opened the pressure register is reduced by bleed_rate and
\* clamped to 0..1500; when it is closed the pressure register is unchanged.
C28_ReliefValveFollowsPressure ==
  AutoCycle =>
    LET press == plc.rd.ir[2]
        relief_thresh == plc.rd.hr[6]
        reduced == press - plc.rd.hr[7]
    IN /\ (bank.co[5] = 1) <=> (press > relief_thresh)
       /\ bank.co[5] \in {0, 1}
       /\ bank.co[5] = 1 =>
            bank.ir[2] = (IF reduced < 0 THEN 0 ELSE IF reduced > 1500 THEN 1500 ELSE reduced)
       /\ bank.co[5] = 0 => bank.ir[2] = plc.rd.ir[2]

\* An Auto cycle at pressure 1350 over the threshold 1300 with bleed rate 15:
\* the valve opens and the register reads 1335.
C28_Witness ==
  /\ AutoCycle
  /\ plc.rd.ir[2] = 1350 /\ plc.rd.hr[6] = 1300 /\ plc.rd.hr[7] = 15 /\ plc.rd.co[5] = 0
  /\ bank.co[5] = 1 /\ bank.ir[2] = 1335

\* C29: in the Auto pump setpoint a zero denominator of the inverse
\* temperature penalty (penalty factor 1, temperature 170) raises no error
\* out of plc_logic and gives the maximum pump voltage 1000.
C29_ZeroDenominatorGivesMaximum ==
  (variant = "A" /\ plc.rd.co[4] # 1 /\ plc.rd.hr[4] = 1
     /\ plc.rd.ir[1] = 170 /\ plc.rd.ir[3] >= 20 /\ plc.pc \in {"collect", "crashed"})
    => (plc.pc = "collect" /\ bank.ir[0] = 1000)

\* An Auto cycle at 170 degrees with flow that found the pump at 250.
C29_Witness ==
  /\ AutoCycle
  /\ plc.rd.ir[1] = 170 /\ plc.rd.ir[3] = 100 /\ plc.rd.ir[0] = 250
  /\ bank.ir[0] = 1000

\* C30: after every step of the Environment of modbus-1-field, whatever the
\* loaded snapshot holds and whatever the noise in [-1, 1] is, the computed
\* pressure is in 600..1400 and the computed temperature in 30..150.
C30_EnvStepWithinPlantRange ==
  (variant = "A" /\ env.lastLoad = "ok" /\ env.n >= 1) =>
    /\ env.data.ir[2] >= 600 /\ env.data.ir[2] <= 1400
    /\ env.data.ir[1] >= 30 /\ env.data.ir[1] <= 150

\* A tick on a snapshot with pressure 0 and temperature 65535: the sensor
\* slots come out at the floor 600 and the ceiling 150.
C30_Witness ==
  /\ variant = "A" /\ env.lastLoad = "ok" /\ env.n >= 1 /\ file.state = "ok"
  /\ file.data.ir[2] = 0 /\ file.data.ir[1] = MaxReg
  /\ env.data.ir[2] = 600 /\ env.data.ir[1] = 150
-----------------------------------------------------------------------------
(* Properties of the interleaved system and of the remaining clients. *)

\* The pump-voltage, fan-RPM and heater-power registers of the bank read 0.
OutputsOff == bank.ir[0] = 0 /\ bank.ir[4] = 0 /\ (variant = "A" => bank.ir[5] = 0)

\* C31: once the Emergency Stop is set and one logic cycle of the Controller
\* has run, the pump-voltage, fan-RPM and heater-power registers of the bank
\* read 0 at every later point while the Emergency Stop stays set, under any
\* interleaving of the Environment's Load and Save with the Controller's
\* per-iteration load, its logic cycles and its saves.
C31_EStopHoldsOutputsOff ==
  []((variant = "A" /\ StoppedCycle) => [](bank.co[EStopCoil(variant)] = 1 => OutputsOff))

\* C32: a nonzero delta that an operator writes to the Pump Delta register
\* through the gateway while a Manual cycle of plc_logic is executing, after
\* the cycle has read the holding registers and before it resets the slot, is
\* not erased unapplied: after the cycle it is still in the slot, or it has
\* been added to the pump voltage.
C32_DeltaWrittenDuringCycleSurvives ==
  [][ (plc.pc = "running" /\ plc'.pc = "collect" /\ plc.rd.hr[4] = 2 /\ plc.rd.co[4] # 1
         /\ bank.hr[5] # plc.rd.hr[5] /\ bank.hr[5] # 0)
        => \/ bank'.hr[5] = bank.hr[5]
           \/ bank'.ir[0] = clamp(bank.ir[0] + int16_signed(bank.hr[5]), 0, 1000) ]_vars

\* The pump voltage the Auto cycle that has just run would have written at
\* temperature t, everything else as it was read.
PumpVoltageAt(t) == auto_pump(plc.rd, [plc.rd EXCEPT !.ir[1] = t]).ir[0]

\* C33: in Auto mode with throughput at least 20 the pump voltage written by
\* plc_logic does not decrease as the temperature rises: for register
\* temperatures t1 <= t2 the voltage computed for t1 is at most the voltage
\* computed for t2; above the temperature of the zero denominator the
\* voltage is not below the fallback maximum.
C33_PumpVoltageMonotoneInTemperature ==
  (AutoCycle /\ plc.rd.ir[3] >= 20) =>
    \A t1 \in 0..Min(plc.rd.ir[1], TempSweep) : PumpVoltageAt(t1) <= bank.ir[0]

\* C34: the mode toggle of the operator console only ever writes Mode 1 or
\* 2.  It writes 2 (Manual) exactly when the Mode it last read is 1 (Auto),
\* and 1 (Auto) for every other last-read value, Idle (0) and the "unknown"
\* of a failed read among them; it never writes Idle.
C34_ToggleWritesAutoOrManual ==
  [][ (variant = "A" /\ hmi.pc = "select" /\ hmi' # hmi /\ bank'.hr[4] # bank.hr[4]) =>
        LET mode == hmi.data.holding_registers[4]
        IN /\ bank'.hr[4] \in {1, 2}
           /\ (bank'.hr[4] = 2) <=> (mode.tag = "value" /\ mode.val = 1) ]_vars

\* The console read Mode 0 (Idle), and after its toggle the bank holds Mode 1.
C34_Witness ==
  /\ variant = "A" /\ atk = AtkIdle /\ hmi.pc = "read" /\ hmi.n >= 1
  /\ hmi.data.holding_registers[4] = Value(0)
  /\ bank.hr[4] = 1
=============================================================================
